---- MODULE Spec2Model ----
(***************************************************************************)
(* A model of .agent/scripts/security_scan.py: the signature catalog       *)
(* (PATTERNS), the per-file scanner (scan_file), the traversal             *)
(* (scan_directory), the report (print_findings) and the driver (main).    *)
(* Text is modelled by strings, a path by the sequence of its components,  *)
(* a regular expression by its syntax tree.                                *)
(***************************************************************************)
EXTENDS Integers, Sequences, FiniteSets, TLC

(***************************************************************************)
(* Characters and strings.                                                 *)
(***************************************************************************)
Min(a, b) == IF a <= b THEN a ELSE b

CharAt(s, i) == SubSeq(s, i, i)

UpperChars == "ABCDEFGHIJKLMNOPQRSTUVWXYZ"
LowerChars == "abcdefghijklmnopqrstuvwxyz"
DigitChars == "0123456789"

HasChar(s, c) == \E k \in 1..Len(s) : CharAt(s, k) = c

\* re.IGNORECASE without the case folding (a mutant of Fold).
FoldCaseSensitive(c) == c

\* The case folding re.IGNORECASE applies to one (ASCII) character.
Fold(c) ==
  IF HasChar(UpperChars, c)
  THEN CharAt(LowerChars, CHOOSE k \in 1..Len(UpperChars) : CharAt(UpperChars, k) = c)
  ELSE c

\* str.isspace, and \s of the re module, for the characters a string of the model
\* can hold.
IsSpace(c) == c \in {" ", "\t", "\n", "\r", "\f"}

\* \w of the re module.
IsWord(c) == HasChar(UpperChars, c) \/ HasChar(LowerChars, c) \/ HasChar(DigitChars, c) \/ c = "_"

\* str.strip(): leading and trailing whitespace removed.
strip(s) ==
  LET keep == {i \in 1..Len(s) : ~IsSpace(CharAt(s, i))}
  IN IF keep = {} THEN ""
     ELSE SubSeq(s, CHOOSE i \in keep : \A j \in keep : i <= j,
                    CHOOSE i \in keep : \A j \in keep : j <= i)

\* str.startswith(prefix).
startswith(s, prefix) == Len(prefix) <= Len(s) /\ SubSeq(s, 1, Len(prefix)) = prefix

(***************************************************************************)
(* Regular expressions: the syntax tree of a pattern, and re.search.       *)
(***************************************************************************)
Lit(s) == [t |-> "lit", s |-> s]                  \* the characters of s
Cls(s) == [t |-> "cls", s |-> s]                  \* [...] over the characters of s
NCls(s) == [t |-> "ncls", s |-> s]                \* [^...]
Dot == [t |-> "dot"]                              \* .
Sp == [t |-> "sp"]                                \* \s
WordB == [t |-> "wb"]                             \* \b
Cat(rs) == [t |-> "cat", rs |-> rs]               \* r1 r2 ...
Alt(rs) == [t |-> "alt", rs |-> rs]               \* (?:r1|r2|...)
AtLeast(r, n) == [t |-> "rep", r |-> r, min |-> n]  \* r{n,}
Star(r) == AtLeast(r, 0)                          \* r*
Plus(r) == AtLeast(r, 1)                          \* r+

\* One character of the subject against one character of the pattern.
SameChar(a, b) == Fold(a) = Fold(b)

RECURSIVE LitAt(_, _, _, _)
LitAt(lit, s, i, k) ==
  \/ k > Len(lit)
  \/ /\ i + k - 1 <= Len(s)
     /\ SameChar(CharAt(s, i + k - 1), CharAt(lit, k))
     /\ LitAt(lit, s, i, k + 1)

InClass(c, cls) == \E k \in 1..Len(cls) : SameChar(c, CharAt(cls, k))

AtWordBoundary(s, i) ==
  LET before == i > 1 /\ i - 1 <= Len(s) /\ IsWord(CharAt(s, i - 1))
      after == i <= Len(s) /\ IsWord(CharAt(s, i))
  IN before # after

\* Ends(re, s, i): the positions j such that re matches s[i..j-1].
RECURSIVE Ends(_, _, _), EndsCat(_, _, _, _), EndsRep(_, _, _, _), EndsClosure(_, _, _, _)
Ends(re, s, i) ==
  CASE re.t = "lit" -> IF LitAt(re.s, s, i, 1) THEN {i + Len(re.s)} ELSE {}
    [] re.t = "cls" -> IF i <= Len(s) /\ InClass(CharAt(s, i), re.s) THEN {i + 1} ELSE {}
    [] re.t = "ncls" -> IF i <= Len(s) /\ ~InClass(CharAt(s, i), re.s) THEN {i + 1} ELSE {}
    [] re.t = "dot" -> IF i <= Len(s) /\ CharAt(s, i) # "\n" THEN {i + 1} ELSE {}
    [] re.t = "sp" -> IF i <= Len(s) /\ IsSpace(CharAt(s, i)) THEN {i + 1} ELSE {}
    [] re.t = "wb" -> IF AtWordBoundary(s, i) THEN {i} ELSE {}
    [] re.t = "cat" -> EndsCat(re.rs, 1, s, {i})
    [] re.t = "alt" -> UNION {Ends(re.rs[k], s, i) : k \in 1..Len(re.rs)}
    [] re.t = "rep" -> EndsRep(re.r, re.min, s, {i})

EndsCat(rs, k, s, from) ==
  IF k > Len(rs) \/ from = {} THEN from
  ELSE EndsCat(rs, k + 1, s, UNION {Ends(rs[k], s, i) : i \in from})

EndsRep(r, min, s, from) ==
  IF min > 0 THEN EndsRep(r, min - 1, s, UNION {Ends(r, s, i) : i \in from})
  ELSE EndsClosure(r, s, from, from)

EndsClosure(r, s, acc, frontier) ==
  LET new == UNION {Ends(r, s, i) : i \in frontier} \ acc
  IN IF new = {} THEN acc ELSE EndsClosure(r, s, acc \cup new, new)

\* re.search(pattern, s, re.IGNORECASE) is not None.
re_search(re, s) == \E i \in 1..(Len(s) + 1) : Ends(re, s, i) # {}

(***************************************************************************)
(* The signature catalog.                                                  *)
(***************************************************************************)
\* The backquote character, which a string of this notation cannot hold, is written ~
\* in the patterns and in the lines of the files alike (no pattern mentions ~).
Backtick == "~"

Quote == Cls("\"'")                  \* ["\']
NotQuote == NCls("\"'")              \* [^"\']
\* A pattern that allows no whitespace where the source has \s* (a mutant of Sps).
SpsNone == Cat(<<>>)

Sps == Star(Sp)                      \* \s*
Base64Chars == Cls(UpperChars \o LowerChars \o DigitChars \o "+/=")   \* [A-Za-z0-9+/=]

SEVERITY_RANK == [critical |-> 0, high |-> 1, medium |-> 2, low |-> 3]

Severities == DOMAIN SEVERITY_RANK

\* A rule that writes the lowest severity as info (a mutant).
RuleLowAsInfo(p, sev, cat, msg) ==
  [pattern |-> p, severity |-> (IF sev = "low" THEN "info" ELSE sev),
   category |-> cat, message |-> msg]

Rule(p, sev, cat, msg) == [pattern |-> p, severity |-> sev, category |-> cat, message |-> msg]

\* Lines 58-94, in the order of the source.  A message is written up to its dash, since
\* a string of this notation holds ASCII only; the 22 messages stay distinct.
PATTERNS == <<
  \* Secrets
  Rule(Cat(<<Alt(<<Lit("password"), Lit("passwd"), Lit("pwd")>>), Sps, Lit("="), Sps,
             Quote, Plus(NotQuote), Quote>>),
       "critical", "Hardcoded Secret", "Hardcoded password detected"),
  Rule(Cat(<<Alt(<<Lit("api_key"), Lit("apikey"), Lit("api_secret")>>), Sps, Lit("="), Sps,
             Quote, Plus(NotQuote), Quote>>),
       "critical", "Hardcoded Secret", "Hardcoded API key detected"),
  Rule(Cat(<<Alt(<<Lit("secret"), Lit("token"), Lit("auth_token")>>), Sps, Lit("="), Sps,
             Quote, AtLeast(Base64Chars, 16), Quote>>),
       "critical", "Hardcoded Secret", "Hardcoded secret/token detected"),
  Rule(Cat(<<Alt(<<Lit("PRIVATE_KEY"), Lit("private_key")>>), Sps, Lit("="), Sps, Quote>>),
       "critical", "Hardcoded Secret", "Hardcoded private key detected"),
  \* SQL Injection
  Rule(Cat(<<Alt(<<Lit("query"), Lit("execute"), Lit("raw")>>), Sps, Lit("("), Sps,
             Cls(Backtick \o "\"'"), Star(Dot), Lit("${")>>),
       "high", "SQL Injection", "String interpolation in SQL query"),
  Rule(Cat(<<Alt(<<Lit("query"), Lit("execute"), Lit("raw")>>), Sps, Lit("("), Sps,
             Quote, Star(Dot), Lit("+"), Sps,
             Alt(<<Lit("req"), Lit("input"), Lit("params"), Lit("body")>>)>>),
       "high", "SQL Injection", "String concatenation with user input in SQL"),
  Rule(Cat(<<Lit(".raw"), Sps, Lit("("), Sps, Lit(Backtick)>>),
       "medium", "SQL Injection", "Raw query with template literal"),
  \* XSS
  Rule(Cat(<<Lit(".innerHTML"), Sps, Lit("=")>>),
       "high", "XSS", "Direct innerHTML assignment"),
  Rule(Lit("dangerouslySetInnerHTML"),
       "medium", "XSS", "dangerouslySetInnerHTML used"),
  Rule(Cat(<<Lit("document.write"), Sps, Lit("(")>>),
       "high", "XSS", "document.write() is an XSS vector"),
  \* Insecure Functions
  Rule(Cat(<<WordB, Lit("eval"), Sps, Lit("(")>>),
       "high", "Code Injection", "eval() is a code injection vector"),
  Rule(Cat(<<Lit("new"), Plus(Sp), Lit("Function"), Sps, Lit("(")>>),
       "high", "Code Injection", "new Function() is equivalent to eval()"),
  Rule(Cat(<<Lit("child_process.exec"), Sps, Lit("(")>>),
       "medium", "Command Injection", "exec() with unsanitized input"),
  Rule(Cat(<<Lit("subprocess.call"), Sps, Lit("("), Sps, Star(NCls(",]")), WordB,
             Lit("shell"), Sps, Lit("="), Sps, Lit("True")>>),
       "high", "Command Injection", "subprocess with shell=True"),
  \* Crypto
  Rule(Cat(<<Lit("createHash"), Sps, Lit("("), Sps, Quote, Lit("md5"), Quote>>),
       "medium", "Weak Crypto", "MD5 is cryptographically broken"),
  Rule(Cat(<<Lit("createHash"), Sps, Lit("("), Sps, Quote, Lit("sha1"), Quote>>),
       "medium", "Weak Crypto", "SHA-1 is deprecated"),
  Rule(Cat(<<Lit("Math.random"), Sps, Lit("(")>>),
       "low", "Weak Randomness", "Math.random() is not cryptographically secure"),
  \* Auth Issues
  Rule(Cat(<<Lit("algorithms"), Sps, Lit(":"), Sps, Lit("["), Sps, Quote, Lit("none"), Quote>>),
       "critical", "Auth Bypass", "JWT 'none' algorithm allows auth bypass"),
  Rule(Cat(<<Lit("verify"), Sps, Lit(":"), Sps, Lit("false")>>),
       "high", "Auth Bypass", "SSL/TLS verification disabled"),
  Rule(Cat(<<Lit("rejectUnauthorized"), Sps, Lit(":"), Sps, Lit("false")>>),
       "high", "Auth Bypass", "TLS certificate validation disabled"),
  \* Information Disclosure
  Rule(Cat(<<Lit("console.log"), Sps, Lit("("), Star(Dot),
             Alt(<<Lit("password"), Lit("secret"), Lit("token"), Lit("key")>>)>>),
       "medium", "Info Disclosure", "Sensitive data logged to console"),
  Rule(Cat(<<Lit(".env"), Alt(<<Lit(".local"), Lit(".production")>>)>>),
       "low", "Info Disclosure", "Env file reference")
  >>


(***************************************************************************)
(* Paths and the file system.  A path is the sequence of its components,   *)
(* an absolute path starts with the component "/".                         *)
(***************************************************************************)
SOURCE_EXTENSIONS == {".ts", ".tsx", ".js", ".jsx", ".py", ".go", ".java", ".rb"}

SKIP_DIRS == {"node_modules", ".git", "dist", "build", "__pycache__", ".agent", ".next", "vendor"}

\* os.path.isabs
isabs(p) == p # <<>> /\ p[1] = "/"

\* os.path.join(a, p)
join(a, p) == IF isabs(p) THEN p ELSE a \o p

\* The length of the longest common prefix of two paths.
RECURSIVE CommonLen(_, _)
CommonLen(p, q) ==
  IF p # <<>> /\ q # <<>> /\ Head(p) = Head(q) THEN 1 + CommonLen(Tail(p), Tail(q)) ELSE 0

\* os.path.relpath(path, start), both absolute.
relpath(path, start) ==
  LET c == CommonLen(path, start)
      rel == [i \in 1..(Len(start) - c) |-> ".."] \o SubSeq(path, c + 1, Len(path))
  IN IF rel = <<>> THEN <<".">> ELSE rel

\* Path(filename).suffix: from the last dot on, unless that dot is the first
\* or the last character of the name.
suffix(name) ==
  LET dots == {i \in 1..Len(name) : CharAt(name, i) = "."}
      last == CHOOSE i \in dots : \A j \in dots : j <= i
  IN IF dots = {} THEN ""
     ELSE IF 1 < last /\ last < Len(name) THEN SubSeq(name, last, Len(name)) ELSE ""

(***************************************************************************)
(* The lines a file of the model can hold, with their line terminators.    *)
(***************************************************************************)
LongPrefix == "aaaaaaaaaaaaaaaaaaaaaaaaaaaaaaaaaaaaaaaaaaaaaaaaaaaaaaaaaaaa"

LPassword == "password = \"abc123\"\n"
LPasswordComment == "// password = \"abc123\"\n"
LHashComment == "   # api_key = 'k1'\n"
LStarComment == " * eval(x)\n"
LTrailingMarker == "x = eval(y) // run\n"
LTwoSecrets == "\tPASSWORD = 'a'; Api_Key = 'b'\r\n"
LRawTemplate == "db.raw(~select ${id}~)\n"
LSqlConcat == "query(\"select \" + req.id)\n"
LRandom == "n = Math.random()\n"
LPlain == "x = 1\n"
LSplitHead == "password =\n"
LSplitTail == "\"abc123\"\n"
LConsole == "console.log(token)\n"
LBlank == "\n"
\* 120 characters once stripped.
LBound ==
  LongPrefix \o "aaaaaaaaaaaaaaaaaaaaaaaaaaaaaaaaaaaaaaaaaaaaa" \o " Math.random( )\n"
\* 500 characters once stripped; the match lies beyond the 120th.
LFiveHundred ==
  "  " \o LongPrefix \o LongPrefix \o LongPrefix \o LongPrefix \o LongPrefix \o LongPrefix
       \o LongPrefix \o LongPrefix \o " n = Math.random( );\n"
LRandomUpper == "N = MATH.RANDOM()\n"
\* The first 120 characters of LFiveHundred, stripped, as a line.
LFiller == LongPrefix \o LongPrefix \o "\n"

LineUniverse ==
  {LPassword, LPasswordComment, LHashComment, LStarComment, LTrailingMarker, LTwoSecrets,
   LRawTemplate, LSqlConcat, LRandom, LPlain, LSplitHead, LSplitTail, LConsole, LBlank, LBound,
   LFiveHundred, LRandomUpper, LFiller}

(***************************************************************************)
(* scan_file.                                                              *)
(***************************************************************************)
\* A finding built with category and message in each other's place (a mutant).
FindingSwapped(sev, cat, file, line, msg, snip) ==
  [severity |-> sev, category |-> msg, file |-> file, line |-> line,
   message |-> cat, snippet |-> snip]

Finding(sev, cat, file, line, msg, snip) ==
  [severity |-> sev, category |-> cat, file |-> file, line |-> line,
   message |-> msg, snippet |-> snip]

\* The lines of the model, stripped.
StrippedLines == {strip(l) : l \in LineUniverse}

\* The rules (by position in PATTERNS) whose pattern re.search finds in s, in order.
Matching(s) ==
  SelectSeq([r \in 1..Len(PATTERNS) |-> r], LAMBDA r : re_search(PATTERNS[r].pattern, s))

RECURSIVE MatchRows(_)
MatchRows(S) ==
  IF S = {} THEN <<>>
  ELSE LET s == CHOOSE x \in S : TRUE
       IN <<[line |-> s, rules |-> Matching(s)]>> \o MatchRows(S \ {s})

\* Matching for every stripped line of the model, evaluated once.
MatchTable == MatchRows(StrippedLines)

\* Line 115: re.search(pattern, stripped, re.IGNORECASE) finds rule r's pattern.
Matches(r, s) ==
  IF s \in StrippedLines
  THEN \E i \in 1..Len(MatchTable) :
         /\ MatchTable[i].line = s
         /\ \E k \in 1..Len(MatchTable[i].rules) : MatchTable[i].rules[k] = r
  ELSE re_search(PATTERNS[r].pattern, s)

\* A comment test that forgets the marker # (a mutant).
is_comment_without_hash(stripped) == startswith(stripped, "//") \/ startswith(stripped, "*")

\* Line 111: the line is skipped as a comment.
is_comment(stripped) ==
  startswith(stripped, "//") \/ startswith(stripped, "#") \/ startswith(stripped, "*")

SNIPPET_MAX == 120

\* A snippet that keeps the whole line (a mutant).
snippet_untruncated(stripped) == stripped

\* stripped[:120]
snippet_of(stripped) == SubSeq(stripped, 1, Min(SNIPPET_MAX, Len(stripped)))

\* The loop over PATTERNS that stops at the first rule that matches (a mutant).
RECURSIVE first_match_only(_, _, _, _)
first_match_only(k, rel_path, line_num, stripped) ==
  IF k > Len(PATTERNS) THEN <<>>
  ELSE IF Matches(k, stripped)
       THEN <<Finding(PATTERNS[k].severity, PATTERNS[k].category, rel_path, line_num,
                      PATTERNS[k].message, snippet_of(stripped))>>
       ELSE first_match_only(k + 1, rel_path, line_num, stripped)

\* Lines 114-123: the loop over PATTERNS from rule k on, for one line.
RECURSIVE match_patterns(_, _, _, _)
match_patterns(k, rel_path, line_num, stripped) ==
  IF k > Len(PATTERNS) THEN <<>>
  ELSE (IF Matches(k, stripped)
        THEN <<Finding(PATTERNS[k].severity, PATTERNS[k].category, rel_path, line_num,
                       PATTERNS[k].message, snippet_of(stripped))>>
        ELSE <<>>)
       \o match_patterns(k + 1, rel_path, line_num, stripped)

\* A loop body that matches the rules against the snippet (a mutant).
scan_line_in_snippet(rel_path, line_num, line) ==
  LET stripped == strip(line)
  IN IF is_comment(stripped) THEN <<>>
     ELSE match_patterns(1, rel_path, line_num, snippet_of(stripped))

\* Lines 108-123: the body of the loop over the lines, for one line.
scan_line(rel_path, line_num, line) ==
  LET stripped == strip(line)
  IN IF is_comment(stripped) THEN <<>> ELSE match_patterns(1, rel_path, line_num, stripped)


(***************************************************************************)
(* print_findings.                                                         *)
(***************************************************************************)
\* A rank that grows with the severity, critical last (a mutant).
rank_reversed(sev) == IF sev \in DOMAIN SEVERITY_RANK THEN 3 - SEVERITY_RANK[sev] ELSE 3

\* SEVERITY_RANK.get(sev, 3)
rank(sev) == IF sev \in DOMAIN SEVERITY_RANK THEN SEVERITY_RANK[sev] ELSE 3

\* A filter that drops the findings at the floor itself (a mutant).
filter_strictly_above(findings, min_severity) ==
  SelectSeq(findings, LAMBDA f : rank(f.severity) < rank(min_severity))

\* A filter that keeps the findings of the floor's severity alone (a mutant).
filter_exact_floor(findings, min_severity) ==
  SelectSeq(findings, LAMBDA f : rank(f.severity) = rank(min_severity))

\* Line 154: the findings at or above the floor, in the order of the list.
filter_findings(findings, min_severity) ==
  SelectSeq(findings, LAMBDA f : rank(f.severity) <= rank(min_severity))

\* x put into the sorted list before the first element of a larger key.
RECURSIVE insert_stable(_, _)
insert_stable(sorted, x) ==
  IF sorted = <<>> THEN <<x>>
  ELSE IF rank(x.severity) < rank(Head(sorted).severity) THEN <<x>> \o sorted
       ELSE <<Head(sorted)>> \o insert_stable(Tail(sorted), x)

\* x put into the sorted list before the first element of a larger or equal key.
RECURSIVE insert_unstable(_, _)
insert_unstable(sorted, x) ==
  IF sorted = <<>> THEN <<x>>
  ELSE IF rank(x.severity) <= rank(Head(sorted).severity) THEN <<x>> \o sorted
       ELSE <<Head(sorted)>> \o insert_unstable(Tail(sorted), x)

\* A sort by severity rank that reverses the findings of equal severity (a mutant).
RECURSIVE sort_unstable(_)
sort_unstable(findings) ==
  IF findings = <<>> THEN <<>>
  ELSE insert_unstable(sort_unstable(SubSeq(findings, 1, Len(findings) - 1)),
                       findings[Len(findings)])

\* Line 155: list.sort(key=rank), a stable sort.
RECURSIVE sort_by_rank(_)
sort_by_rank(findings) ==
  IF findings = <<>> THEN <<>>
  ELSE insert_stable(sort_by_rank(SubSeq(findings, 1, Len(findings) - 1)),
                     findings[Len(findings)])

Out(k, v) == [k |-> k, v |-> v]

\* Lines 161-170: what the loop over the filtered findings prints, current_category
\* being the category of the last header.
RECURSIVE render(_, _)
render(filtered, current_category) ==
  IF filtered = <<>> THEN <<>>
  ELSE LET f == Head(filtered)
       IN (IF f.category # current_category THEN <<Out("header", f.category)>> ELSE <<>>)
          \o <<Out("finding", f)>>
          \o render(Tail(filtered), f.category)

\* Lines 153-172: the printed output and the returned count.
print_findings(findings, min_severity) ==
  LET filtered == sort_by_rank(filter_findings(findings, min_severity))
  IN IF filtered = <<>> THEN [out |-> <<Out("none_found", min_severity)>>, count |-> 0]
     ELSE [out |-> render(filtered, ""), count |-> Len(filtered)]

(***************************************************************************)
(* main: the summary and the exit status.                                  *)
(***************************************************************************)
\* Lines 203-205: the tally of the findings by severity.
tally(findings) ==
  [sev \in {findings[i].severity : i \in 1..Len(findings)} |->
     Cardinality({i \in 1..Len(findings) : findings[i].severity = sev})]

\* by_severity.get(sev, 0)
get(by_severity, sev) == IF sev \in DOMAIN by_severity THEN by_severity[sev] ELSE 0

\* An exit status that fails on critical and high findings (a mutant).
exit_status_critical_high(by_severity) ==
  IF get(by_severity, "critical") + get(by_severity, "high") > 0 THEN 1 ELSE 0

\* Line 220: sys.exit(1 if by_severity.get("critical", 0) > 0 else 0)
exit_status(by_severity) == IF get(by_severity, "critical") > 0 THEN 1 ELSE 0

\* Lines 207-218: the lines of the summary.
summary_lines(by_severity, count) ==
  LET order == <<"critical", "high", "medium", "low">>
      shown == SelectSeq(order, LAMBDA sev : get(by_severity, sev) > 0)
      critical_high == get(by_severity, "critical") + get(by_severity, "high")
  IN <<Out("summary", "")>>
     \o [i \in 1..Len(shown) |-> Out("tally", <<shown[i], get(by_severity, shown[i])>>)]
     \o (IF count = 0 THEN <<Out("passed", "")>>
         ELSE IF critical_high > 0 THEN <<Out("attention", critical_high)>> ELSE <<>>)


(***************************************************************************)
(* The state.                                                              *)
(***************************************************************************)
VARIABLES
  fs,            \* the file system: listing of every directory, lines of every file
  argv,          \* the arguments of the invocation: path, severity, files
  pc,            \* where the invocation stands
  all_findings,  \* scan_directory's result list
  todo,          \* scan_directory's loops: target files left, directories and files left
  frame,         \* scan_file's locals
  count,         \* main's count, returned by print_findings
  by_severity,   \* main's tally
  exit_code,     \* the status of sys.exit, once pc = "exit"
  stdout,        \* what the invocation has printed
  prev,          \* the arguments and results of the invocation before this one
  state_file,    \* session_manager: the text of .agent_session.json, or NoFile
  session_out,   \* session_manager: what the last command has printed
  commands,      \* session_manager: the command lines run so far, in order
  pid_file,      \* auto_preview: the text of .preview.pid, or NoFile
  alive,         \* auto_preview: the processes that run
  port,          \* auto_preview: the process that listens on the port, or Nobody
  has_script,    \* auto_preview: package.json holds a dev or start script
  ppc,           \* auto_preview: where the invocation stands
  pframe,        \* auto_preview: the locals of main, start_server and stop_server
  spawned,       \* auto_preview: the processes start_server has spawned so far
  preview_out    \* auto_preview: what the invocation has printed

scan_vars ==
  <<fs, argv, pc, all_findings, todo, frame, count, by_severity, exit_code, stdout, prev>>

session_vars == <<state_file, session_out, commands>>

preview_vars == <<pid_file, alive, port, has_script, ppc, pframe, spawned, preview_out>>

vars == <<scan_vars, session_vars, preview_vars>>

\* A file that does not exist.
NoFile == [exists |-> FALSE]

\* No session command was run and there is no state file.
SessionFresh ==
  /\ state_file = NoFile
  /\ session_out = <<>>
  /\ commands = <<>>

\* No process listens on the port.
Nobody == 0

\* The locals of auto_preview before main is entered.
NoLocals == [action |-> "", pid |-> 0, proc |-> 0, waited |-> 0]

\* auto_preview was never run: no PID file, no process, the port closed.
PreviewFresh ==
  /\ pid_file = NoFile
  /\ alive = {}
  /\ port = Nobody
  /\ has_script = FALSE
  /\ ppc = "idle"
  /\ pframe = NoLocals
  /\ spawned = {}
  /\ preview_out = <<>>

\* --files not given / --files given with these paths.
NoFiles == [given |-> FALSE, paths |-> <<>>]
FilesArg(paths) == [given |-> TRUE, paths |-> paths]

\* A test of target_files against None only: [] is true (a mutant).
is_not_none(target_files) == target_files.given

\* The truth value of target_files (line 132): None and [] are false.
truthy(target_files) == target_files.given /\ target_files.paths # <<>>

\* os.path.isdir, os.path.isfile
isdir(p) == p \in DOMAIN fs.listing
isfile(p) == p \in DOMAIN fs.content

NoFrame == [filepath |-> <<>>, rel_path |-> <<>>, lines |-> <<>>, line_num |-> 0,
            findings |-> <<>>, ret |-> ""]

NoTodo == [targets |-> <<>>, stack |-> <<>>, root |-> <<>>, files |-> <<>>]

\* The call scan_file(filepath, project_root), returning to the loop ret.
call_scan_file(filepath, ret) ==
  [filepath |-> filepath, rel_path |-> relpath(filepath, argv.path), lines |-> <<>>,
   line_num |-> 0, findings |-> <<>>, ret |-> ret]

(***************************************************************************)
(* main, lines 189-198.                                                    *)
(***************************************************************************)
\* A main that reports the missing directory and exits with status 0 (a mutant).
MainFatalExitsZero ==
  /\ pc = "main"
  /\ IF ~isdir(argv.path)
     THEN /\ stdout' = stdout \o <<Out("error", argv.path)>>
          /\ exit_code' = 0
          /\ pc' = "exit"
     ELSE /\ stdout' = stdout \o <<Out("banner", argv.severity)>>
          /\ pc' = "scan_directory"
          /\ UNCHANGED exit_code
  /\ UNCHANGED <<fs, argv, all_findings, todo, frame, count, by_severity, prev>>
  /\ UNCHANGED <<session_vars, preview_vars>>

Main ==
  /\ pc = "main"
  /\ IF ~isdir(argv.path)
     THEN /\ stdout' = stdout \o <<Out("error", argv.path)>>
          /\ exit_code' = 1
          /\ pc' = "exit"
     ELSE /\ stdout' = stdout \o <<Out("banner", argv.severity)>>
          /\ pc' = "scan_directory"
          /\ UNCHANGED exit_code
  /\ UNCHANGED <<fs, argv, all_findings, todo, frame, count, by_severity, prev>>
  /\ UNCHANGED <<session_vars, preview_vars>>

(***************************************************************************)
(* scan_directory, lines 128-148.                                          *)
(***************************************************************************)
\* A result list that is not built anew by the call (a mutant).
new_result_list_kept(old) == old

\* Line 130: all_findings = []
new_result_list(old) == <<>>

ScanDirectory ==
  /\ pc = "scan_directory"
  /\ all_findings' = new_result_list(all_findings)
  /\ IF truthy(argv.files)
     THEN /\ todo' = [NoTodo EXCEPT !.targets = argv.files.paths]
          /\ pc' = "targets"
     ELSE /\ todo' = [NoTodo EXCEPT !.stack = <<argv.path>>]
          /\ pc' = "walk"
  /\ UNCHANGED <<fs, argv, frame, count, by_severity, exit_code, stdout, prev>>
  /\ UNCHANGED <<session_vars, preview_vars>>

\* A listed path joined to the root even when it is absolute (a mutant).
abs_path_always_under_root(project_root, fpath) == project_root \o fpath

\* Line 134: os.path.join(project_root, fpath) if not os.path.isabs(fpath) else fpath
abs_path_of(project_root, fpath) ==
  IF ~isabs(fpath) THEN join(project_root, fpath) ELSE fpath

\* A loop over target_files that skips what the walk would skip (a mutant).
TargetsLikeTheWalk ==
  /\ pc = "targets"
  /\ IF todo.targets = <<>>
     THEN /\ pc' = "print_findings"
          /\ UNCHANGED <<todo, frame>>
     ELSE LET fpath == Head(todo.targets)
              abs_path == abs_path_of(argv.path, fpath)
          IN /\ todo' = [todo EXCEPT !.targets = Tail(todo.targets)]
             /\ IF /\ isfile(abs_path)
                   /\ suffix(abs_path[Len(abs_path)]) \in SOURCE_EXTENSIONS
                   /\ \A i \in 1..Len(abs_path) : abs_path[i] \notin SKIP_DIRS
                THEN /\ frame' = call_scan_file(abs_path, "targets")
                     /\ pc' = "scan_file"
                ELSE UNCHANGED <<pc, frame>>
  /\ UNCHANGED <<fs, argv, all_findings, count, by_severity, exit_code, stdout, prev>>
  /\ UNCHANGED <<session_vars, preview_vars>>

\* Lines 133-137: one round of the loop over target_files.
Targets ==
  /\ pc = "targets"
  /\ IF todo.targets = <<>>
     THEN /\ pc' = "print_findings"
          /\ UNCHANGED <<todo, frame>>
     ELSE LET fpath == Head(todo.targets)
              abs_path == abs_path_of(argv.path, fpath)
          IN /\ todo' = [todo EXCEPT !.targets = Tail(todo.targets)]
             /\ IF isfile(abs_path)
                THEN /\ frame' = call_scan_file(abs_path, "targets")
                     /\ pc' = "scan_file"
                ELSE UNCHANGED <<pc, frame>>
  /\ UNCHANGED <<fs, argv, all_findings, count, by_severity, exit_code, stdout, prev>>
  /\ UNCHANGED <<session_vars, preview_vars>>

\* The findings of a file put in front of the list (a mutant).
extend_in_front(list, findings) == findings \o list

\* Lines 136, 146: all_findings.extend(findings)
extend(list, findings) == list \o findings

\* A walk that descends into every directory (a mutant).
prune_nothing(dirs) == dirs

\* Line 140: dirs[:] = [d for d in dirs if d not in SKIP_DIRS]
prune(dirs) == SelectSeq(dirs, LAMBDA d : d \notin SKIP_DIRS)

\* Lines 139-140: os.walk yields the next directory, top down; the directories kept
\* in dirs are walked next, in order, before the directories already pending.
Walk ==
  /\ pc = "walk"
  /\ IF todo.stack = <<>>
     THEN /\ pc' = "print_findings"
          /\ UNCHANGED todo
     ELSE LET root == Head(todo.stack)
              dirs == prune(fs.listing[root].dirs)
          IN /\ todo' = [todo EXCEPT
                           !.stack = [i \in 1..Len(dirs) |-> root \o <<dirs[i]>>] \o Tail(todo.stack),
                           !.root = root,
                           !.files = fs.listing[root].files]
             /\ pc' = "files"
  /\ UNCHANGED <<fs, argv, all_findings, frame, count, by_severity, exit_code, stdout, prev>>
  /\ UNCHANGED <<session_vars, preview_vars>>

\* A walk that scans every file it lists (a mutant).
is_source_always(filename) == TRUE

\* Lines 142-143: ext = Path(filename).suffix is in SOURCE_EXTENSIONS.
is_source(filename) == suffix(filename) \in SOURCE_EXTENSIONS

\* Lines 141-146: one round of the loop over the files of the directory.
WalkFile ==
  /\ pc = "files"
  /\ IF todo.files = <<>>
     THEN /\ pc' = "walk"
          /\ UNCHANGED <<todo, frame>>
     ELSE LET filename == Head(todo.files)
          IN /\ todo' = [todo EXCEPT !.files = Tail(todo.files)]
             /\ IF ~is_source(filename)
                THEN UNCHANGED <<pc, frame>>
                ELSE /\ frame' = call_scan_file(todo.root \o <<filename>>, "files")
                     /\ pc' = "scan_file"
  /\ UNCHANGED <<fs, argv, all_findings, count, by_severity, exit_code, stdout, prev>>
  /\ UNCHANGED <<session_vars, preview_vars>>

(***************************************************************************)
(* scan_file, lines 97-125.                                                *)
(***************************************************************************)
\* A scan_file that opens the file for writing, which empties it (a mutant).
ScanFileOpenForWriting ==
  /\ pc = "scan_file"
  /\ IF frame.filepath \in fs.unreadable
     THEN /\ all_findings' = all_findings \o frame.findings
          /\ pc' = frame.ret
          /\ UNCHANGED <<fs, frame>>
     ELSE /\ fs' = [fs EXCEPT !.content[frame.filepath] = <<>>]
          /\ frame' = [frame EXCEPT !.lines = <<>>]
          /\ pc' = "lines"
          /\ UNCHANGED all_findings
  /\ UNCHANGED <<argv, todo, count, by_severity, exit_code, stdout, prev>>
  /\ UNCHANGED <<session_vars, preview_vars>>

\* A scan_file whose read error ends the run with a traceback (a mutant).
ScanFileOpenRaises ==
  /\ pc = "scan_file"
  /\ IF frame.filepath \in fs.unreadable
     THEN /\ exit_code' = 1
          /\ pc' = "exit"
          /\ UNCHANGED frame
     ELSE /\ frame' = [frame EXCEPT !.lines = fs.content[frame.filepath]]
          /\ pc' = "lines"
          /\ UNCHANGED exit_code
  /\ UNCHANGED <<fs, argv, all_findings, todo, count, by_severity, stdout, prev>>
  /\ UNCHANGED <<session_vars, preview_vars>>

\* Lines 102-106: open and readlines; IOError returns the empty list.
ScanFileOpen ==
  /\ pc = "scan_file"
  /\ IF frame.filepath \in fs.unreadable
     THEN /\ all_findings' = extend(all_findings, frame.findings)
          /\ pc' = frame.ret
          /\ UNCHANGED frame
     ELSE /\ frame' = [frame EXCEPT !.lines = fs.content[frame.filepath]]
          /\ pc' = "lines"
          /\ UNCHANGED all_findings
  /\ UNCHANGED <<fs, argv, todo, count, by_severity, exit_code, stdout, prev>>
  /\ UNCHANGED <<session_vars, preview_vars>>

\* A loop over the lines that numbers them from 0 (a mutant).
ScanFileLineFromZero ==
  /\ pc = "lines"
  /\ frame.line_num < Len(frame.lines)
  /\ LET line_num == frame.line_num + 1
     IN frame' = [frame EXCEPT
                    !.line_num = line_num,
                    !.findings = @ \o scan_line(frame.rel_path, line_num - 1,
                                                frame.lines[line_num])]
  /\ UNCHANGED <<fs, argv, pc, all_findings, todo, count, by_severity, exit_code, stdout, prev>>
  /\ UNCHANGED <<session_vars, preview_vars>>

\* Lines 108-123: one round of the loop over the lines.
ScanFileLine ==
  /\ pc = "lines"
  /\ frame.line_num < Len(frame.lines)
  /\ LET line_num == frame.line_num + 1
     IN frame' = [frame EXCEPT
                    !.line_num = line_num,
                    !.findings = @ \o scan_line(frame.rel_path, line_num, frame.lines[line_num])]
  /\ UNCHANGED <<fs, argv, pc, all_findings, todo, count, by_severity, exit_code, stdout, prev>>
  /\ UNCHANGED <<session_vars, preview_vars>>

\* Line 125 and the caller's all_findings.extend (lines 136, 146).
ScanFileReturn ==
  /\ pc = "lines"
  /\ frame.line_num = Len(frame.lines)
  /\ all_findings' = extend(all_findings, frame.findings)
  /\ pc' = frame.ret
  /\ UNCHANGED <<fs, argv, todo, frame, count, by_severity, exit_code, stdout, prev>>
  /\ UNCHANGED <<session_vars, preview_vars>>

(***************************************************************************)
(* main, lines 199-220.                                                    *)
(***************************************************************************)
\* A print_findings that filters and sorts the list it was given in place (a mutant).
PrintFindingsInPlace ==
  /\ pc = "print_findings"
  /\ LET printed == print_findings(all_findings, argv.severity)
     IN /\ stdout' = stdout \o printed.out
        /\ count' = printed.count
  /\ all_findings' = sort_by_rank(filter_findings(all_findings, argv.severity))
  /\ pc' = "summary"
  /\ UNCHANGED <<fs, argv, todo, frame, by_severity, exit_code, prev>>
  /\ UNCHANGED <<session_vars, preview_vars>>

\* Line 199: count = print_findings(findings, args.severity)
PrintFindings ==
  /\ pc = "print_findings"
  /\ LET printed == print_findings(all_findings, argv.severity)
     IN /\ stdout' = stdout \o printed.out
        /\ count' = printed.count
  /\ pc' = "summary"
  /\ UNCHANGED <<fs, argv, all_findings, todo, frame, by_severity, exit_code, prev>>
  /\ UNCHANGED <<session_vars, preview_vars>>

\* A summary that exits with status 1 whenever a finding was displayed (a mutant).
SummaryExitOnCount ==
  /\ pc = "summary"
  /\ by_severity' = tally(all_findings)
  /\ stdout' = stdout \o summary_lines(by_severity', count)
  /\ exit_code' = IF count > 0 THEN 1 ELSE 0
  /\ pc' = "exit"
  /\ UNCHANGED <<fs, argv, all_findings, todo, frame, count, prev>>
  /\ UNCHANGED <<session_vars, preview_vars>>

\* A summary that tallies the findings displayed only (a mutant).
SummaryTalliesDisplayed ==
  /\ pc = "summary"
  /\ by_severity' = tally(filter_findings(all_findings, argv.severity))
  /\ stdout' = stdout \o summary_lines(by_severity', count)
  /\ exit_code' = exit_status(by_severity')
  /\ pc' = "exit"
  /\ UNCHANGED <<fs, argv, all_findings, todo, frame, count, prev>>
  /\ UNCHANGED <<session_vars, preview_vars>>

\* Lines 202-220: the summary and sys.exit.
Summary ==
  /\ pc = "summary"
  /\ by_severity' = tally(all_findings)
  /\ stdout' = stdout \o summary_lines(by_severity', count)
  /\ exit_code' = exit_status(by_severity')
  /\ pc' = "exit"
  /\ UNCHANGED <<fs, argv, all_findings, todo, frame, count, prev>>
  /\ UNCHANGED <<session_vars, preview_vars>>


(***************************************************************************)
(* The file trees and the arguments of the model.                          *)
(***************************************************************************)
ROOT == <<"/", "proj">>

AppPy == ROOT \o <<"app.py">>
NotesTxt == ROOT \o <<"notes.txt">>
Makefile == ROOT \o <<"Makefile">>
LibJs == ROOT \o <<"node_modules", "lib.js">>
DbJs == ROOT \o <<"src", "db.js">>
OldRb == ROOT \o <<"src", "vendor", "old.rb">>

Dir(dirs, files) == [dirs |-> dirs, files |-> files]

\* /proj holds app.py, notes.txt, Makefile, node_modules/lib.js, src/db.js and src/vendor/old.rb,
\* listed in this order by the operating system.
Tree(app, db, unreadable) ==
  [listing |-> (ROOT :> Dir(<<"node_modules", "src">>, <<"app.py", "notes.txt", "Makefile">>))
            @@ ((ROOT \o <<"node_modules">>) :> Dir(<<>>, <<"lib.js">>))
            @@ ((ROOT \o <<"src">>) :> Dir(<<"vendor">>, <<"db.js">>))
            @@ ((ROOT \o <<"src", "vendor">>) :> Dir(<<>>, <<"old.rb">>)),
   content |-> (AppPy :> app) @@ (NotesTxt :> <<LPassword>>) @@ (Makefile :> <<LPassword>>)
            @@ (LibJs :> <<LConsole>>)
            @@ (DbJs :> db) @@ (OldRb :> <<LPassword>>),
   unreadable |-> unreadable]

Bodies ==
  {<<>>,
   <<LPlain, LPassword, LPasswordComment>>,
   <<LRandom, LSqlConcat, LRawTemplate>>,
   <<LTwoSecrets, LTrailingMarker>>}

Trees == {Tree(app, db, unreadable) : app \in Bodies, db \in Bodies, unreadable \in {{}, {DbJs}}}

\* The values of --files: absent, empty, and a list with a relative path, a path that
\* does not exist, a directory, an absolute path, a path into node_modules, a path
\* given twice and a path of another extension.
FileArgs ==
  {NoFiles, FilesArg(<<>>),
   FilesArg(<<<<"src", "db.js">>, <<"missing.py">>, <<"src">>, AppPy,
              <<"node_modules", "lib.js">>, <<"src", "db.js">>, <<"notes.txt">>>>)}

\* The values of path: the project, a path that does not exist, a file.
PathArgs == {ROOT, <<"/", "nowhere">>, AppPy}

NoPrev == [valid |-> FALSE, argv |-> [path |-> ROOT, severity |-> "low", files |-> NoFiles],
           findings |-> <<>>, exit_code |-> 0]

Init ==
  /\ fs \in Trees
  /\ argv \in [path : PathArgs, severity : Severities, files : FileArgs]
  /\ pc = "main"
  /\ all_findings = <<>>
  /\ todo = NoTodo
  /\ frame = NoFrame
  /\ count = 0
  /\ by_severity = [sev \in {} |-> 0]
  /\ exit_code = 0
  /\ stdout = <<>>
  /\ prev = NoPrev
  /\ SessionFresh
  /\ PreviewFresh

\* The scanner is invoked again on the same path of the unchanged tree, with any
\* severity and any files; all_findings still holds the list of the call before.
Invoke ==
  /\ pc = "exit"
  /\ prev' = [valid |-> TRUE, argv |-> argv, findings |-> all_findings, exit_code |-> exit_code]
  /\ argv' \in [path : {argv.path}, severity : Severities, files : FileArgs]
  /\ pc' = "main"
  /\ todo' = NoTodo
  /\ frame' = NoFrame
  /\ count' = 0
  /\ by_severity' = [sev \in {} |-> 0]
  /\ exit_code' = 0
  /\ stdout' = <<>>
  /\ UNCHANGED <<fs, all_findings>>
  /\ UNCHANGED <<session_vars, preview_vars>>

Next ==
  \/ Main
  \/ ScanDirectory
  \/ Targets
  \/ Walk
  \/ WalkFile
  \/ ScanFileOpen
  \/ ScanFileLine
  \/ ScanFileReturn
  \/ PrintFindings
  \/ Summary
  \/ Invoke

Spec == Init /\ [][Next]_vars

(***************************************************************************)
(* scan_file on every file of at most MaxLines lines.                      *)
(***************************************************************************)
MaxLines == 2

RECURSIVE SeqsUpTo(_, _)
SeqsUpTo(S, n) ==
  IF n = 0 THEN {<<>>}
  ELSE LET shorter == SeqsUpTo(S, n - 1)
       IN shorter \cup {Append(q, x) : q \in {r \in shorter : Len(r) = n - 1}, x \in S}

FPy == ROOT \o <<"f.py">>

OneFileTree(body, unreadable) ==
  [listing |-> (ROOT :> Dir(<<>>, <<"f.py">>)),
   content |-> (FPy :> body),
   unreadable |-> unreadable]

FileInit ==
  /\ fs \in {OneFileTree(body, unreadable) :
               body \in SeqsUpTo(LineUniverse, MaxLines), unreadable \in {{}, {FPy}}}
  /\ argv = [path |-> ROOT, severity |-> "low", files |-> NoFiles]
  /\ pc = "scan_file"
  /\ all_findings = <<>>
  /\ todo = NoTodo
  /\ frame = call_scan_file(FPy, "returned")
  /\ count = 0
  /\ by_severity = [sev \in {} |-> 0]
  /\ exit_code = 0
  /\ stdout = <<>>
  /\ prev = NoPrev
  /\ SessionFresh
  /\ PreviewFresh

FileNext ==
  \/ ScanFileOpen
  \/ ScanFileLine
  \/ ScanFileReturn

FileSpec == FileInit /\ [][FileNext]_vars

(***************************************************************************)
(* print_findings and the summary on every list of at most MaxFindings     *)
(* findings.                                                               *)
(***************************************************************************)
MaxFindings == 3

Range(q) == {q[i] : i \in 1..Len(q)}

\* Findings of the four severities, two of them of the same line.
SampleFindings ==
  Range(scan_line(<<"app.py">>, 1, LPassword))
    \cup Range(scan_line(<<"app.py">>, 2, LRawTemplate))
    \cup Range(scan_line(<<"app.py">>, 3, LTrailingMarker))
    \cup Range(scan_line(<<"src", "db.js">>, 1, LRandom))
    \cup Range(scan_line(<<"src", "db.js">>, 2, LPassword))
    \cup Range(scan_line(<<"src", "db.js">>, 3, LSqlConcat))

PrintInit ==
  /\ fs = Tree(<<>>, <<>>, {})
  /\ argv \in [path : {ROOT}, severity : Severities, files : {NoFiles}]
  /\ pc = "print_findings"
  /\ all_findings \in SeqsUpTo(SampleFindings, MaxFindings)
  /\ todo = NoTodo
  /\ frame = NoFrame
  /\ count = 0
  /\ by_severity = [sev \in {} |-> 0]
  /\ exit_code = 0
  /\ stdout = <<Out("banner", argv.severity)>>
  /\ prev = NoPrev
  /\ SessionFresh
  /\ PreviewFresh

PrintNext ==
  \/ PrintFindings
  \/ Summary

PrintSpec == PrintInit /\ [][PrintNext]_vars


(***************************************************************************)
(* The properties.                                                         *)
(***************************************************************************)
\* print_findings has returned.
Printed == pc \in {"summary", "exit"}

\* The findings print_findings has printed, in the order printed.
FindingsIn(out) ==
  LET shown == SelectSeq(out, LAMBDA e : e.k = "finding")
  IN [i \in 1..Len(shown) |-> shown[i].v]

Displayed == FindingsIn(stdout)

Occurrences(q, x) == Cardinality({i \in 1..Len(q) : q[i] = x})

HasSeverity(q, sev) == \E i \in 1..Len(q) : q[i].severity = sev

\* C1: the process exits with a non-zero status if and only if the unfiltered finding
\* list holds a critical finding, whatever the floor; high, medium and low findings
\* alone give status 0.
C1_ExitIffCritical ==
  pc = "exit" => (exit_code # 0 <=> HasSeverity(all_findings, "critical"))

C1_Witness ==
  /\ pc = "exit"
  /\ exit_code # 0
  /\ argv.severity = "critical"
  /\ HasSeverity(all_findings, "high")
  /\ count < Len(all_findings)

\* C2: two runs on the same tree, path and files that differ only in the floor end
\* with the same exit status and the same unfiltered finding list.
C2_FloorChangesNeitherVerdictNorFindings ==
  (/\ pc = "exit"
   /\ isdir(argv.path)
   /\ prev.valid
   /\ prev.argv.path = argv.path
   /\ prev.argv.files = argv.files
   /\ prev.argv.severity # argv.severity)
  => (exit_code = prev.exit_code /\ all_findings = prev.findings)

C2_Witness ==
  /\ pc = "exit"
  /\ isdir(argv.path)
  /\ prev.valid
  /\ prev.argv.files = argv.files
  /\ prev.argv.severity = "low"
  /\ argv.severity = "critical"
  /\ 0 < count
  /\ count < Len(all_findings)
  /\ exit_code = 1

\* C3: the findings displayed are exactly the findings of the list whose rank is at
\* most the floor's rank, each as often as the list holds it; the returned count is
\* their number, and the floor low displays the whole list.
C3_DisplayedIsTheFilteredList ==
  Printed =>
    /\ \A f \in Range(all_findings) :
         Occurrences(Displayed, f) =
           IF SEVERITY_RANK[f.severity] <= SEVERITY_RANK[argv.severity]
           THEN Occurrences(all_findings, f) ELSE 0
    /\ Range(Displayed) \subseteq Range(all_findings)
    /\ count = Len(Displayed)
    /\ (argv.severity = "low" => Len(Displayed) = Len(all_findings))

C3_Witness ==
  /\ Printed
  /\ argv.severity = "high"
  /\ HasSeverity(Displayed, "high")
  /\ HasSeverity(all_findings, "medium")
  /\ 0 < count
  /\ count < Len(all_findings)

\* C4: every finding displayed at a floor is displayed at every floor that is less
\* strict: for floors S1, S2 with rank(S1) <= rank(S2), what is displayed at S1 is
\* displayed at S2.
C4_DisplayMonotoneInFloor ==
  Printed =>
    \A S1 \in Severities :
      SEVERITY_RANK[S1] <= SEVERITY_RANK[argv.severity] =>
        LET stricter == FindingsIn(print_findings(all_findings, S1).out)
        IN \A f \in Range(stricter) : Occurrences(stricter, f) <= Occurrences(Displayed, f)

C4_Witness ==
  /\ Printed
  /\ argv.severity = "low"
  /\ HasSeverity(Displayed, "low")
  /\ FindingsIn(print_findings(all_findings, "high").out) # <<>>
  /\ Len(FindingsIn(print_findings(all_findings, "high").out)) < Len(Displayed)

\* C5: the displayed list is sorted by severity rank, ascending, and the displayed
\* findings of one severity are in the order they have in the input list.
C5_DisplayedStableSorted ==
  Printed =>
    /\ \A i, j \in 1..Len(Displayed) :
         i < j => SEVERITY_RANK[Displayed[i].severity] <= SEVERITY_RANK[Displayed[j].severity]
    /\ \A sev \in Severities :
         SEVERITY_RANK[sev] <= SEVERITY_RANK[argv.severity] =>
           SelectSeq(Displayed, LAMBDA f : f.severity = sev)
             = SelectSeq(all_findings, LAMBDA f : f.severity = sev)

C5_Witness ==
  /\ Printed
  /\ \E i, j \in 1..Len(Displayed) :
       i < j /\ Displayed[i].severity = Displayed[j].severity /\ Displayed[i] # Displayed[j]
  /\ \E i, j \in 1..Len(all_findings) :
       i < j /\ SEVERITY_RANK[all_findings[i].severity] > SEVERITY_RANK[all_findings[j].severity]
  /\ Displayed # all_findings

\* C6: a call of scan_directory on the same path and files of the unchanged tree
\* returns the list the call before it returned: the same findings in the same
\* order, and none carried over.
C6_ScanIsDeterministicAndFresh ==
  (/\ pc = "print_findings"
   /\ prev.valid
   /\ prev.argv.path = argv.path
   /\ prev.argv.files = argv.files)
  => all_findings = prev.findings

C6_Witness ==
  /\ pc = "print_findings"
  /\ prev.valid
  /\ prev.argv.path = argv.path
  /\ prev.argv.files = argv.files
  /\ Len(all_findings) > 1


\* The stripped line starts with one of the comment markers.
StartsWithMarker(s) == \E m \in {"//", "#", "*"} : startswith(s, m)

\* The findings scan_file holds for line i of the file.
FindingsOfLine(i) == SelectSeq(frame.findings, LAMBDA f : f.line = i)

\* The rules whose pattern is found in the stripped line s.
Hits(s) == {r \in 1..Len(PATTERNS) : Matches(r, s)}

\* C7: a line that, stripped, starts with //, # or * yields no finding, whatever it
\* would match; a line that holds a marker after other text is matched like any line.
C7_CommentLinesYieldNothing ==
  \A i \in 1..frame.line_num :
    LET s == strip(frame.lines[i])
    IN /\ StartsWithMarker(s) => FindingsOfLine(i) = <<>>
       /\ (~StartsWithMarker(s) /\ Hits(s) # {}) => FindingsOfLine(i) # <<>>

C7_Witness ==
  /\ frame.lines = <<LHashComment, LTrailingMarker>>
  /\ frame.line_num = 2
  /\ Hits(strip(LHashComment)) # {}
  /\ FindingsOfLine(1) = <<>>
  /\ Len(FindingsOfLine(2)) = 1

\* C8: a scanned file with the line password = "abc123" yields a critical finding of
\* category Hardcoded Secret for that line, and the run fails; the line prefixed with
\* // yields no finding.
C8_PasswordLine ==
  (pc = "exit" /\ isdir(argv.path)) =>
    \A file \in {AppPy, DbJs} \ fs.unreadable :
      \A i \in 1..Len(fs.content[file]) :
        LET of_line == SelectSeq(all_findings,
                                 LAMBDA f : f.file = relpath(file, argv.path) /\ f.line = i)
        IN /\ fs.content[file][i] = LPassword =>
                /\ \E k \in 1..Len(of_line) :
                     of_line[k].severity = "critical" /\ of_line[k].category = "Hardcoded Secret"
                /\ exit_code = 1
           /\ fs.content[file][i] = LPasswordComment => of_line = <<>>

C8_Witness ==
  /\ pc = "exit"
  /\ isdir(argv.path)
  /\ fs.content[AppPy] = <<LPlain, LPassword, LPasswordComment>>
  /\ fs.content[DbJs] = <<>>
  /\ Len(all_findings) = 1
  /\ all_findings[1].line = 2
  /\ exit_code = 1

\* C9: the findings of a line that is no comment correspond one to one to the rules
\* whose pattern matches it: as many findings as matching rules, one per rule.
C9_OneFindingPerMatchingRule ==
  \A i \in 1..frame.line_num :
    LET s == strip(frame.lines[i])
        mine == FindingsOfLine(i)
    IN ~StartsWithMarker(s) =>
         /\ Len(mine) = Cardinality(Hits(s))
         /\ {mine[k].message : k \in 1..Len(mine)} = {PATTERNS[r].message : r \in Hits(s)}

C9_Witness ==
  /\ frame.line_num >= 1
  /\ frame.lines[1] = LTwoSecrets
  /\ Len(FindingsOfLine(1)) = 2
  /\ FindingsOfLine(1)[1].severity = FindingsOfLine(1)[2].severity
  /\ FindingsOfLine(1)[1].category = FindingsOfLine(1)[2].category
  /\ FindingsOfLine(1)[1] # FindingsOfLine(1)[2]

\* The files os.walk reaches from dir, in its order: the files of a directory, then
\* its subdirectories one after the other, the excluded ones left out.
RECURSIVE FilesUnder(_), FilesUnderAll(_)
FilesUnder(dir) ==
  LET here == SelectSeq(fs.listing[dir].files, LAMBDA n : suffix(n) \in SOURCE_EXTENSIONS)
      subs == SelectSeq(fs.listing[dir].dirs, LAMBDA d : d \notin SKIP_DIRS)
  IN [i \in 1..Len(here) |-> dir \o <<here[i]>>]
     \o FilesUnderAll([i \in 1..Len(subs) |-> dir \o <<subs[i]>>])

FilesUnderAll(dirs) ==
  IF dirs = <<>> THEN <<>> ELSE FilesUnder(Head(dirs)) \o FilesUnderAll(Tail(dirs))

\* The files a run scans, in traversal order, a file as often as it is scanned.
Visits ==
  IF truthy(argv.files)
  THEN SelectSeq([i \in 1..Len(argv.files.paths) |-> join(argv.path, argv.files.paths[i])],
                 LAMBDA p : isfile(p))
  ELSE FilesUnder(argv.path)

\* The findings of lines n.. of a file, line after line.
RECURSIVE FindingsFrom(_, _)
FindingsFrom(file, n) ==
  IF file \in fs.unreadable \/ n > Len(fs.content[file]) THEN <<>>
  ELSE scan_line(relpath(file, argv.path), n, fs.content[file][n]) \o FindingsFrom(file, n + 1)

RECURSIVE ConcatFindings(_)
ConcatFindings(files) ==
  IF files = <<>> THEN <<>> ELSE FindingsFrom(Head(files), 1) \o ConcatFindings(Tail(files))

RuleOf(f) == CHOOSE r \in 1..Len(PATTERNS) : PATTERNS[r].message = f.message

C11_SnippetIsTruncatedLine ==
  \A k \in 1..Len(frame.findings) :
    LET f == frame.findings[k]
        s == strip(frame.lines[f.line])
    IN /\ Len(f.snippet) <= 120
       /\ startswith(s, f.snippet)
       /\ Len(f.snippet) = (IF Len(s) <= 120 THEN Len(s) ELSE 120)

\* A line of 500 characters and a line of exactly 120 have both given a finding.
C11_Witness ==
  /\ pc = "returned"
  /\ Len(frame.findings) = 2
  /\ Len(strip(frame.lines[1])) = 500 /\ Len(frame.findings[1].snippet) = 120
  /\ Len(strip(frame.lines[2])) = 120 /\ frame.findings[2].snippet = strip(frame.lines[2])

\* The run walks the tree: the root is a directory and no file subset was given.
Traversal == isdir(argv.path) /\ ~truthy(argv.files)

\* scan_directory has begun in this invocation.
Scanning == pc \in {"targets", "walk", "files", "scan_file", "lines", "print_findings",
                    "summary", "exit"}

\* The path rel, relative to the root, passes through a directory of an excluded name.
InsideExcluded(rel) == \E i \in 1..(Len(rel) - 1) : rel[i] \in SKIP_DIRS

\* C12: when the tree is walked, no directory of an excluded name is ever pending or
\* listed, at any depth; no file beneath one is opened and no finding has a path
\* inside one.
C12_ExcludedDirectoriesArePruned ==
  Traversal =>
    /\ \A i \in 1..Len(todo.stack) :
         ~InsideExcluded(relpath(todo.stack[i], argv.path) \o <<"">>)
    /\ pc \in {"files", "scan_file", "lines"} =>
         ~InsideExcluded(relpath(todo.root, argv.path) \o <<"">>)
    /\ pc \in {"scan_file", "lines"} => ~InsideExcluded(frame.rel_path)
    /\ Scanning => \A k \in 1..Len(all_findings) : ~InsideExcluded(all_findings[k].file)

\* The walk has listed src without keeping src/vendor, node_modules was dropped at the
\* root, and the files under both hold lines that match.
C12_Witness ==
  /\ Traversal
  /\ pc = "files"
  /\ todo.root = ROOT \o <<"src">>
  /\ todo.stack = <<>>
  /\ fs.listing[todo.root].dirs = <<"vendor">>
  /\ "node_modules" \in Range(fs.listing[ROOT].dirs)
  /\ Hits(strip(fs.content[OldRb][1])) # {}
  /\ Hits(strip(fs.content[LibJs][1])) # {}

\* The name ends with the characters of ext.
endswith(name, ext) ==
  Len(ext) <= Len(name) /\ SubSeq(name, Len(name) - Len(ext) + 1, Len(name)) = ext

\* The name is a stem followed by one of the eight source extensions.
HasSourceExtension(name) ==
  \E ext \in {".ts", ".tsx", ".js", ".jsx", ".py", ".go", ".java", ".rb"} :
    endswith(name, ext) /\ Len(name) > Len(ext)

\* C13: when the tree is walked, every file opened and every file a finding names has
\* one of the source extensions; a file of another extension, or of none, is never
\* opened and gives no finding.
C13_OnlySourceExtensionsAreScanned ==
  Traversal =>
    /\ pc \in {"scan_file", "lines"} =>
         HasSourceExtension(frame.filepath[Len(frame.filepath)])
    /\ Scanning =>
         \A k \in 1..Len(all_findings) :
           HasSourceExtension(all_findings[k].file[Len(all_findings[k].file)])

\* The walk is over: notes.txt and Makefile hold a line that matches, were listed in
\* the root with app.py, and app.py gave findings.
C13_Witness ==
  /\ Traversal
  /\ pc = "print_findings"
  /\ fs.listing[ROOT].files = <<"app.py", "notes.txt", "Makefile">>
  /\ Hits(strip(fs.content[NotesTxt][1])) # {}
  /\ Hits(strip(fs.content[Makefile][1])) # {}
  /\ \E k \in 1..Len(all_findings) : all_findings[k].file = <<"app.py">>

\* The run scans an explicit file subset.
Subset == isdir(argv.path) /\ truthy(argv.files)

\* The listed paths that name a regular file, in list order, a relative path taken
\* under the root and an absolute path as it is.
ListedFiles ==
  LET listed == [i \in 1..Len(argv.files.paths) |->
                   LET p == argv.files.paths[i]
                   IN IF Head(p) = "/" THEN p ELSE argv.path \o p]
  IN SelectSeq(listed, LAMBDA p : p \in DOMAIN fs.content)

Fatal == argv.path \notin DOMAIN fs.listing

\* C15: when the root is missing or is no directory, the run ends with a non-zero
\* status and has printed the error message and nothing else: no banner, no report,
\* no summary; no directory was listed, no file opened and no finding made.  A run
\* on a directory never prints the error and ends only after its summary.
C15_FatalRoot ==
  /\ (Fatal /\ pc # "main") =>
       /\ pc = "exit"
       /\ exit_code # 0
       /\ stdout = <<Out("error", argv.path)>>
       /\ todo = NoTodo /\ frame = NoFrame
       /\ all_findings = <<>> /\ count = 0 /\ DOMAIN by_severity = {}
  /\ ~Fatal =>
       /\ \A i \in 1..Len(stdout) : stdout[i].k # "error"
       /\ pc = "exit" => \E i \in 1..Len(stdout) : stdout[i].k = "summary"

\* Two runs in a row were given as the root a file that holds lines, the second with
\* a file subset; the second has ended.
C15_Witness ==
  /\ pc = "exit" /\ exit_code = 1
  /\ argv.path = AppPy
  /\ argv.path \in DOMAIN fs.content
  /\ fs.content[AppPy] # <<>>
  /\ truthy(argv.files)
  /\ prev.valid

\* The tree t without the files of the set gone.
Absent(t, gone) ==
  [listing |-> [d \in DOMAIN t.listing |->
                  Dir(t.listing[d].dirs,
                      SelectSeq(t.listing[d].files, LAMBDA n : d \o <<n>> \notin gone))],
   content |-> [p \in DOMAIN t.content \ gone |-> t.content[p]],
   unreadable |-> t.unreadable \ gone]

\* The files a walk of the tree t from dir scans, in order.
RECURSIVE WalkOf(_, _), WalkAllOf(_, _)
WalkOf(t, dir) ==
  LET here == SelectSeq(t.listing[dir].files, LAMBDA n : suffix(n) \in SOURCE_EXTENSIONS)
      subs == SelectSeq(t.listing[dir].dirs, LAMBDA d : d \notin SKIP_DIRS)
  IN [i \in 1..Len(here) |-> dir \o <<here[i]>>]
     \o WalkAllOf(t, [i \in 1..Len(subs) |-> dir \o <<subs[i]>>])

WalkAllOf(t, dirs) ==
  IF dirs = <<>> THEN <<>> ELSE WalkOf(t, Head(dirs)) \o WalkAllOf(t, Tail(dirs))

\* The findings of lines n.. of a readable file of relative path rel.
RECURSIVE LinesFindings(_, _, _)
LinesFindings(rel, lines, n) ==
  IF n > Len(lines) THEN <<>>
  ELSE scan_line(rel, n, lines[n]) \o LinesFindings(rel, lines, n + 1)

RECURSIVE ResultOver(_, _)
ResultOver(t, files) ==
  IF files = <<>> THEN <<>>
  ELSE LinesFindings(relpath(Head(files), argv.path), t.content[Head(files)], 1)
       \o ResultOver(t, Tail(files))

\* The list scan_directory returns on the tree t, every file of which can be read.
ResultOn(t) ==
  ResultOver(t, IF truthy(argv.files)
                THEN SelectSeq([i \in 1..Len(argv.files.paths) |->
                                  join(argv.path, argv.files.paths[i])],
                               LAMBDA p : p \in DOMAIN t.content)
                ELSE WalkOf(t, argv.path))

\* C16: no line of a file that cannot be read is scanned; the list scan_directory
\* returns is the list it returns on the same tree without the files that cannot be
\* read; and the run ends after its summary, with the status its findings give.
C16_ReadFailureSkipsTheFile ==
  ~Fatal =>
    /\ pc = "lines" => frame.filepath \notin fs.unreadable
    /\ pc = "print_findings" => all_findings = ResultOn(Absent(fs, fs.unreadable))
    /\ pc = "exit" =>
         /\ \E i \in 1..Len(stdout) : stdout[i].k = "summary"
         /\ exit_code = (IF HasSeverity(all_findings, "critical") THEN 1 ELSE 0)

\* A walk has ended on a tree where src/db.js holds matching lines and cannot be
\* read: app.py gave findings, src/db.js none, and the summary was printed.
C16_Witness ==
  /\ Traversal
  /\ pc = "exit"
  /\ fs.unreadable = {DbJs}
  /\ LinesFindings(<<"src", "db.js">>, fs.content[DbJs], 1) # <<>>
  /\ \E k \in 1..Len(all_findings) : all_findings[k].file = <<"app.py">>
  /\ \A k \in 1..Len(all_findings) : all_findings[k].file # <<"src", "db.js">>
  /\ stdout[Len(stdout)].k \in {"attention", "tally"}

\* The number of findings of the list of severity sev.
CountOf(findings, sev) ==
  Cardinality({i \in 1..Len(findings) : findings[i].severity = sev})

\* The tally lines the summary has printed, as pairs of severity and number.
TalliesPrinted == {stdout[i].v : i \in {j \in 1..Len(stdout) : stdout[j].k = "tally"}}

\* C17: at the end of a run, whatever the floor, the tally of each of the four
\* severities is the number of findings of that severity in the whole list, hidden
\* or displayed; the four tallies add up to the length of the list; the summary
\* prints the tallies that are not zero.
C17_TalliesOverWholeList ==
  pc = "exit" =>
    /\ \A sev \in {"critical", "high", "medium", "low"} :
         /\ get(by_severity, sev) = CountOf(all_findings, sev)
         /\ CountOf(all_findings, sev) > 0 =>
              <<sev, CountOf(all_findings, sev)>> \in TalliesPrinted
         /\ CountOf(all_findings, sev) = 0 =>
              \A n \in 0..Len(all_findings) : <<sev, n>> \notin TalliesPrinted
    /\ get(by_severity, "critical") + get(by_severity, "high")
         + get(by_severity, "medium") + get(by_severity, "low") = Len(all_findings)

\* A run at the floor critical has ended: it displayed one finding of three and
\* tallied the two hidden ones.
C17_Witness ==
  /\ pc = "exit"
  /\ argv.severity = "critical"
  /\ Len(all_findings) = 3 /\ count = 1
  /\ get(by_severity, "critical") = 1
  /\ get(by_severity, "high") + get(by_severity, "medium") + get(by_severity, "low") = 2

\* C18: no step of a run, in a walk, on a file subset or on a root that is no
\* directory, before or after a file is read or fails to be read, changes the tree:
\* its directories, their entries, the lines of its files and what can be read.
C18_TreeIsNeverChanged == [][fs' = fs]_vars

\* A walk that read files and made findings has ended after a run on a file subset,
\* and the tree is still one of the trees a run starts on.
C18_Witness ==
  /\ pc = "exit"
  /\ Traversal
  /\ prev.valid /\ truthy(prev.argv.files)
  /\ all_findings # <<>> /\ prev.findings # <<>>
  /\ fs \in Trees

\* The rules of the catalog whose severity, category and message the finding carries.
RulesOf(f) ==
  {r \in 1..Len(PATTERNS) :
     /\ PATTERNS[r].severity = f.severity
     /\ PATTERNS[r].category = f.category
     /\ PATTERNS[r].message = f.message}

\* The stripped text of the line the finding names.
LineOf(f) == strip(fs.content[argv.path \o f.file][f.line])

\* C19: every finding, while its file is scanned, in the list returned and in the
\* report, carries the severity, category and message of exactly one rule of the
\* catalog, and the pattern of that rule is found in the line the finding names; the
\* findings displayed are findings of the list, with every field as it was made.
C19_FindingCarriesItsRule ==
  /\ \A f \in Range(frame.findings) \cup Range(all_findings) \cup Range(Displayed) :
       /\ Cardinality(RulesOf(f)) = 1
       /\ \A r \in RulesOf(f) : Matches(r, LineOf(f))
  /\ Printed => Range(Displayed) \subseteq Range(all_findings)
  /\ pc = "exit" =>
       \A sev \in DOMAIN by_severity : \E f \in Range(all_findings) : f.severity = sev

\* A run has ended that made two findings of different rules on one line, displayed
\* some findings and hid others.
C19_Witness ==
  /\ pc = "exit"
  /\ \E i, j \in 1..Len(all_findings) :
       /\ all_findings[i].file = all_findings[j].file
       /\ all_findings[i].line = all_findings[j].line
       /\ RulesOf(all_findings[i]) # RulesOf(all_findings[j])
  /\ Displayed # <<>>
  /\ Len(Displayed) < Len(all_findings)

\* The messages of the findings of a sequence.
MessagesOf(q) == {q[k].message : k \in 1..Len(q)}

\* C20: the findings of a line are those the line gives when scanned alone, whatever
\* the lines around it; letter case is ignored, so that PASSWORD and Api_Key are found
\* like password and api_key, and MATH.RANDOM like Math.random; an assignment whose
\* value stands on the next line gives no finding on either line; and the findings a
\* file returns are the findings of its lines, line after line.
C20_MatchingIsPerLineIgnoringCase ==
  /\ \A i \in 1..frame.line_num :
       LET line == frame.lines[i]
           found == MessagesOf(FindingsOfLine(i))
       IN /\ found = MessagesOf(scan_line(<<"alone">>, 1, line))
          /\ line = LTwoSecrets =>
               found = {"Hardcoded password detected", "Hardcoded API key detected"}
          /\ line = LRandomUpper =>
               /\ FindingsOfLine(i) # <<>>
               /\ found = MessagesOf(scan_line(<<"alone">>, 1, LRandom))
          /\ (line = LSplitHead /\ i < frame.line_num /\ frame.lines[i + 1] = LSplitTail) =>
               FindingsOfLine(i) = <<>> /\ FindingsOfLine(i + 1) = <<>>
  /\ pc = "returned" =>
       all_findings = LinesFindings(frame.rel_path, frame.lines, 1)

\* scan_file has returned nothing for a file that holds an assignment of a password
\* on two lines, which on one line is found.
C20_Witness ==
  /\ pc = "returned"
  /\ frame.lines = <<LSplitHead, LSplitTail>>
  /\ all_findings = <<>>
  /\ strip(LSplitHead) \o " " \o strip(LSplitTail) = strip(LPassword)
  /\ scan_line(<<"alone">>, 1, LPassword) # <<>>

\* C21: the line a finding names is the position, counted from 1, of the line in the
\* file that gave it: that line is no comment and holds the pattern of the finding's
\* rule; every line scanned that is no comment and holds a pattern has a finding under
\* its own position, whatever lines were skipped before it.
C21_LineNumbersArePhysical ==
  /\ \A k \in 1..Len(frame.findings) :
       LET f == frame.findings[k]
       IN /\ f.line \in 1..frame.line_num
          /\ ~StartsWithMarker(strip(frame.lines[f.line]))
          /\ \A r \in RulesOf(f) : r \in Hits(strip(frame.lines[f.line]))
  /\ \A i \in 1..frame.line_num :
       LET s == strip(frame.lines[i])
       IN (~StartsWithMarker(s) /\ Hits(s) # {}) =>
            \E k \in 1..Len(frame.findings) : frame.findings[k].line = i

\* scan_file has returned for a file whose first line is a comment and whose second
\* line holds a password: its one finding names line 2.
C21_Witness ==
  /\ pc = "returned"
  /\ frame.lines = <<LPasswordComment, LPassword>>
  /\ Len(frame.findings) = 1
  /\ frame.findings[1].line = 2

\* The category headers and the findings print_findings has printed, in order.
Report == SelectSeq(stdout, LAMBDA e : e.k \in {"header", "finding"})

\* Every header of the report opens a run of findings of its category, right after
\* the start or after a finding of another category, and every finding follows its
\* header or a finding of its own category.
HeaderPerRun ==
  \A i \in 1..Len(Report) :
    IF Report[i].k = "header"
    THEN /\ i < Len(Report)
         /\ Report[i + 1].k = "finding"
         /\ Report[i + 1].v.category = Report[i].v
         /\ i > 1 => (Report[i - 1].k = "finding" /\ Report[i - 1].v.category # Report[i].v)
    ELSE /\ i > 1
         /\ Report[i - 1].k = "finding" => Report[i - 1].v.category = Report[i].v.category

\* C22: the report holds one category header for every maximal run of consecutive
\* findings of one category in the displayed list, and no step from print_findings on
\* changes the list of findings in content or order.
C22_RenderingIsPresentational ==
  /\ [](Printed => HeaderPerRun)
  /\ [][all_findings' = all_findings]_vars

\* Three findings were displayed, the first and the third of one category and the
\* second of another, under three headers.
C22_Witness ==
  /\ Printed
  /\ Len(Displayed) = 3
  /\ Displayed[1].category = Displayed[3].category
  /\ Displayed[1].category # Displayed[2].category
  /\ Len(SelectSeq(Report, LAMBDA e : e.k = "header")) = 3

\* C23: the ranks of critical, high, medium and low are 0, 1, 2 and 3 and no other
\* severity has a rank; every rule of the catalog, and every finding while its file is
\* scanned, in the list returned and in the report, has one of the four severities, so
\* that its rank is the rank of the table and never the default.
C23_SeverityIsClosed ==
  /\ DOMAIN SEVERITY_RANK = {"critical", "high", "medium", "low"}
  /\ SEVERITY_RANK["critical"] = 0 /\ SEVERITY_RANK["high"] = 1
  /\ SEVERITY_RANK["medium"] = 2 /\ SEVERITY_RANK["low"] = 3
  /\ \A r \in 1..Len(PATTERNS) : PATTERNS[r].severity \in DOMAIN SEVERITY_RANK
  /\ \A f \in Range(frame.findings) \cup Range(all_findings) \cup Range(Displayed) :
       /\ f.severity \in {"critical", "high", "medium", "low"}
       /\ rank(f.severity) = SEVERITY_RANK[f.severity]

\* A run has ended whose list holds findings of each of the four severities, all of
\* them displayed, the last one of the lowest severity.
C23_Witness ==
  /\ pc = "exit"
  /\ \A sev \in {"critical", "high", "medium", "low"} : HasSeverity(all_findings, sev)
  /\ Len(Displayed) = Len(all_findings)
  /\ Displayed[Len(Displayed)].severity = "low"

\* --files was given with no path.
EmptySubset == argv.files.given /\ argv.files.paths = <<>>

\* C24: when --files is given with no path and the root is a directory, the loop over
\* the listed paths is never entered and scan_directory returns what the walk of the
\* whole tree gives, the files that cannot be read left aside.
C24_EmptySubsetMeansTraversal ==
  (EmptySubset /\ ~Fatal) =>
    /\ pc # "targets"
    /\ pc = "print_findings" =>
         LET t == Absent(fs, fs.unreadable)
         IN all_findings = ResultOver(t, WalkOf(t, argv.path))

\* scan_directory has returned findings of app.py and of src/db.js for --files with
\* no path.
C24_Witness ==
  /\ EmptySubset
  /\ pc = "print_findings"
  /\ \E k \in 1..Len(all_findings) : all_findings[k].file = <<"app.py">>
  /\ \E k \in 1..Len(all_findings) : all_findings[k].file = <<"src", "db.js">>

\* The findings of the list that name the file of relative path rel.
FindingsNaming(rel) == SelectSeq(all_findings, LAMBDA f : f.file = rel)

\* C25: on a file subset, a listed regular file that the walk of the tree would not
\* scan, for its extension or for an excluded directory above it, is scanned like any
\* other: the list returned holds the findings of its lines.
C25_SubsetIgnoresAllowListAndExclusions ==
  (Subset /\ pc = "print_findings") =>
    \A p \in Range(ListedFiles) \ (Range(WalkOf(fs, argv.path)) \cup fs.unreadable) :
      FindingsNaming(relpath(p, argv.path))
        = LinesFindings(relpath(p, argv.path), fs.content[p], 1)

\* A file subset was scanned that lists node_modules/lib.js and notes.txt: neither is
\* scanned by the walk, both hold a line that matches, and both gave findings.
C25_Witness ==
  /\ Subset
  /\ pc = "print_findings"
  /\ {LibJs, NotesTxt} \subseteq Range(ListedFiles) \ Range(WalkOf(fs, argv.path))
  /\ FindingsNaming(<<"node_modules", "lib.js">>) # <<>>
  /\ FindingsNaming(<<"notes.txt">>) # <<>>

\* The summary has printed the line of a scan that passed.
PassedPrinted == \E i \in 1..Len(stdout) : stdout[i].k = "passed"

\* C26: at the end of a run, for every list of findings and every floor, the line of a
\* scan that passed is printed exactly when no finding was displayed, and then the
\* list holds no critical finding and the exit status is 0; a run that ends with a
\* non-zero status has displayed at least one finding.
C26_PassedNeverContradictsStatus ==
  pc = "exit" =>
    /\ PassedPrinted <=> count = 0
    /\ count = 0 => (~HasSeverity(all_findings, "critical") /\ exit_code = 0)
    /\ exit_code # 0 => (count >= 1 /\ Displayed # <<>>)

\* A run at the floor critical has ended on a list of findings none of which is
\* critical: nothing was displayed, the scan passed, the status is 0.
C26_Witness ==
  /\ pc = "exit"
  /\ argv.severity = "critical"
  /\ all_findings # <<>>
  /\ count = 0 /\ PassedPrinted /\ exit_code = 0

\* C27: a line that is no comment gives one finding for each rule whose pattern is
\* found anywhere in its trimmed text, however long the text; beyond 120 characters
\* the snippet is the first 120; the line of 500 characters whose only match lies
\* beyond the 120th gives a finding whose snippet holds no match of any rule.
C27_TruncationOnlyCutsTheSnippet ==
  \A i \in 1..frame.line_num :
    LET s == strip(frame.lines[i])
        found == FindingsOfLine(i)
    IN ~StartsWithMarker(s) =>
         /\ Len(found) = Cardinality(Hits(s))
         /\ MessagesOf(found) = {PATTERNS[r].message : r \in Hits(s)}
         /\ Len(s) > 120 => \A k \in 1..Len(found) : found[k].snippet = SubSeq(s, 1, 120)
         /\ frame.lines[i] = LFiveHundred =>
              /\ found # <<>>
              /\ \A k \in 1..Len(found) : Hits(found[k].snippet) = {}

\* scan_file has returned one finding for the line of 500 characters: its snippet has
\* 120 characters and holds no match, and the match begins beyond the 120th character.
C27_Witness ==
  /\ pc = "returned"
  /\ frame.lines = <<LFiveHundred>>
  /\ Len(frame.findings) = 1
  /\ Len(frame.findings[1].snippet) = 120
  /\ Hits(frame.findings[1].snippet) = {}
  /\ frame.findings[1].snippet = strip(LFiller)
  /\ Hits(SubSeq(strip(LFiveHundred), 480, 500)) # {}


(***************************************************************************)
(* session_manager.py.  The state file holds JSON text, written here as    *)
(* the sequence of its tokens: punctuation, strings and numbers.           *)
(***************************************************************************)
P(c) == <<"punct", c>>
S(s) == <<"string", s>>
N(n) == <<"number", n>>

\* {}
EmptyState == [k \in {} |-> <<>>]

\* state.get(key, default)
state_get(state, key, default) == IF key \in DOMAIN state THEN state[key] ELSE default

\* Lines 48-52: the entry of a save.
Entry(timestamp, note, session) ==
  [timestamp |-> timestamp, note |-> note, session |-> session]

\* json.dump of an entry.
dump_entry(e) ==
  <<P("{"), S("timestamp"), S(e.timestamp), S("note"), S(e.note),
    S("session"), N(e.session), P("}")>>

RECURSIVE dump_list(_)
dump_list(h) == IF h = <<>> THEN <<>> ELSE dump_entry(Head(h)) \o dump_list(Tail(h))

\* Line 43: json.dump(state, f), the keys in the order they were set.
dumps(state) ==
  <<P("{")>>
  \o (IF "history" \in DOMAIN state
      THEN <<S("history"), P("[")>> \o dump_list(state["history"]) \o <<P("]")>>
      ELSE <<>>)
  \o (IF "current" \in DOMAIN state
      THEN <<S("current")>> \o dump_entry(state["current"])
      ELSE <<>>)
  \o <<P("}")>>

\* The entry whose tokens begin at position i of the text.
entry_at(text, i) == Entry(text[i + 2][2], text[i + 4][2], text[i + 6][2])

\* Line 36: json.load(f) of a text that holds {} or a history and a current entry;
\* any other text is a decoding error.
loads(text) ==
  IF text = dumps(EmptyState) THEN [ok |-> TRUE, value |-> EmptyState]
  ELSE IF Len(text) < 14 THEN [ok |-> FALSE, value |-> EmptyState]
  ELSE LET n == (Len(text) - 14) \div 8
           value == [history |-> [i \in 1..n |-> entry_at(text, 4 + 8 * (i - 1))],
                     current |-> entry_at(text, 6 + 8 * n)]
       IN IF dumps(value) = text THEN [ok |-> TRUE, value |-> value]
          ELSE [ok |-> FALSE, value |-> EmptyState]

\* Lines 30-38.
load_state(file) ==
  IF ~file.exists THEN EmptyState
  ELSE LET decoded == loads(file.text)
       IN IF decoded.ok THEN decoded.value ELSE EmptyState

\* Lines 41-43.
save_state(state) == [exists |-> TRUE, text |-> dumps(state)]

\* A session number that starts at 0 (a mutant).
next_session_from_zero(state) == Len(state_get(state, "history", <<>>))

\* Line 51: len(state.get("history", [])) + 1
next_session(state) == Len(state_get(state, "history", <<>>)) + 1

\* Lines 46-58: the file cmd_save leaves and what it prints.
cmd_save(file, note, timestamp) ==
  LET state == load_state(file)
      entry == Entry(timestamp, note, next_session(state))
      history == state_get(state, "history", <<>>) \o <<entry>>
  IN [file |-> save_state([history |-> history, current |-> entry]),
      out |-> <<Out("saved", entry)>>]

\* Lines 61-70.
cmd_load(file) ==
  LET state == load_state(file)
  IN [file |-> file,
      out |-> IF "current" \notin DOMAIN state THEN <<Out("no_active_session", "")>>
              ELSE <<Out("current", state["current"])>>]

SHOW_LAST == 10

\* Lines 73-82: history[-10:], reversed, with entry['timestamp'][:16].
cmd_show(file) ==
  LET history == state_get(load_state(file), "history", <<>>)
      n == Len(history)
      shown == Min(SHOW_LAST, n)
  IN [file |-> file,
      out |-> IF history = <<>> THEN <<Out("no_history", "")>>
              ELSE <<Out("total", n)>>
                   \o [i \in 1..shown |->
                        LET e == history[n - i + 1]
                        IN Out("entry", <<e.session, SubSeq(e.timestamp, 1, Min(16, Len(e.timestamp))),
                                          e.note>>)]]

\* A clear that empties the state file and leaves it in place (a mutant).
cmd_clear_truncates(file) ==
  IF file.exists
  THEN [file |-> [exists |-> TRUE, text |-> dumps(EmptyState)], out |-> <<Out("cleared", "")>>]
  ELSE [file |-> file, out |-> <<Out("nothing_to_clear", "")>>]

\* Lines 85-91.
cmd_clear(file) ==
  IF file.exists
  THEN [file |-> NoFile, out |-> <<Out("cleared", "")>>]
  ELSE [file |-> file, out |-> <<Out("nothing_to_clear", "")>>]

\* The values of datetime.now().isoformat() in the model.
Times == {"2026-01-01T09:00:07", "2026-01-01T09:01:30"}

\* strftime('%Y-%m-%d %H:%M') of the instant whose isoformat is t.
strftime_minute(t) == SubSeq(t, 1, 10) \o " " \o SubSeq(t, 12, 16)

\* The values of " ".join(sys.argv[2:]) in the model.
NoteArgs == {"", "  auth "}

\* Lines 107-109: the note of a save.
note_of(raw, now) ==
  IF strip(raw) = "" THEN "session " \o strftime_minute(now) ELSE strip(raw)

MaxCommands == 4

\* The scanner is not running.
ScanIdle ==
  /\ fs = Tree(<<>>, <<>>, {})
  /\ argv = [path |-> ROOT, severity |-> "low", files |-> NoFiles]
  /\ pc = "exit"
  /\ all_findings = <<>>
  /\ todo = NoTodo
  /\ frame = NoFrame
  /\ count = 0
  /\ by_severity = [sev \in {} |-> 0]
  /\ exit_code = 0
  /\ stdout = <<>>
  /\ prev = NoPrev

\* Lines 106-110: session_manager.py save <note>
SessionSave ==
  /\ Len(commands) < MaxCommands
  /\ \E raw \in NoteArgs, now \in Times, timestamp \in Times :
       LET note == note_of(raw, now)
           done == cmd_save(state_file, note, timestamp)
       IN /\ commands' = Append(commands, [cmd |-> "save", note |-> note,
                                           timestamp |-> timestamp])
          /\ state_file' = done.file
          /\ session_out' = done.out
  /\ UNCHANGED <<scan_vars, preview_vars>>

\* Lines 111-112: session_manager.py load
SessionLoad ==
  /\ Len(commands) < MaxCommands
  /\ commands' = Append(commands, [cmd |-> "load"])
  /\ state_file' = cmd_load(state_file).file
  /\ session_out' = cmd_load(state_file).out
  /\ UNCHANGED <<scan_vars, preview_vars>>

\* Lines 113-114: session_manager.py show
SessionShow ==
  /\ Len(commands) < MaxCommands
  /\ commands' = Append(commands, [cmd |-> "show"])
  /\ state_file' = cmd_show(state_file).file
  /\ session_out' = cmd_show(state_file).out
  /\ UNCHANGED <<scan_vars, preview_vars>>

\* Lines 115-116: session_manager.py clear
SessionClear ==
  /\ Len(commands) < MaxCommands
  /\ commands' = Append(commands, [cmd |-> "clear"])
  /\ state_file' = cmd_clear(state_file).file
  /\ session_out' = cmd_clear(state_file).out
  /\ UNCHANGED <<scan_vars, preview_vars>>

\* Lines 95-104: no command, or a command that is not valid.
SessionRejected ==
  /\ Len(commands) < MaxCommands
  /\ \E cmd \in {"", "purge"} :
       /\ commands' = Append(commands, [cmd |-> cmd])
       /\ session_out' = (IF cmd = "" THEN <<Out("usage", "")>>
                          ELSE <<Out("unknown_command", cmd)>>)
  /\ UNCHANGED state_file
  /\ UNCHANGED <<scan_vars, preview_vars>>

SessionInit == ScanIdle /\ SessionFresh /\ PreviewFresh

\* Any commands but clear, from no state file.
SessionNext ==
  \/ SessionSave
  \/ SessionLoad
  \/ SessionShow
  \/ SessionRejected

SessionSpec == SessionInit /\ [][SessionNext]_vars

\* Any commands, from no state file.
ClearNext ==
  \/ SessionSave
  \/ SessionLoad
  \/ SessionShow
  \/ SessionClear
  \/ SessionRejected

ClearSpec == SessionInit /\ [][ClearNext]_vars

\* The saves among the command lines q, in order.
SavesOf(q) == SelectSeq(q, LAMBDA c : c.cmd = "save")

\* The state the state file holds.
Stored == load_state(state_file)

\* The history holds one entry for every save run, in order, numbered from 1, with the
\* note and the time of that save; current is the last entry; no save, no file.
HistoryMatchesSaves ==
  LET saves == SavesOf(commands)
  IN IF saves = <<>> THEN state_file = NoFile
     ELSE /\ state_file.exists
          /\ loads(state_file.text).ok
          /\ DOMAIN Stored = {"history", "current"}
          /\ Len(Stored["history"]) = Len(saves)
          /\ \A i \in 1..Len(saves) :
               Stored["history"][i] = Entry(saves[i].timestamp, saves[i].note, i)
          /\ Stored["current"] = Stored["history"][Len(saves)]

\* C28: from no state file, after any commands save, load and show, the history of
\* the state file holds one entry for every save, in the order of the saves, the i-th
\* numbered i, and current is the last entry; a load or a show leaves the state file
\* as it was.
C28_SessionNumbering ==
  /\ []HistoryMatchesSaves
  /\ [][commands'[Len(commands')].cmd \in {"load", "show"} => state_file' = state_file]_vars

\* A save, a load, a save and a show were run: the load printed session 1 and the
\* show now prints two entries, session 2 first.
C28_Witness ==
  /\ Len(commands) = 4
  /\ commands[1].cmd = "save" /\ commands[2].cmd = "load"
  /\ commands[3].cmd = "save" /\ commands[4].cmd = "show"
  /\ Len(session_out) = 3
  /\ session_out[1] = Out("total", 2)
  /\ session_out[2].v[1] = 2 /\ session_out[3].v[1] = 1
  /\ Stored["current"].session = 2

\* What the command line c leaves and prints when run on the state file.
run(file, c) ==
  CASE c.cmd = "save" -> cmd_save(file, c.note, c.timestamp)
    [] c.cmd = "load" -> cmd_load(file)
    [] c.cmd = "show" -> cmd_show(file)
    [] c.cmd = "clear" -> cmd_clear(file)
    [] c.cmd = "" -> [file |-> file, out |-> <<Out("usage", "")>>]
    [] OTHER -> [file |-> file, out |-> <<Out("unknown_command", c.cmd)>>]

\* What the command lines q, run in order after the result before, leave and print.
RECURSIVE Replay(_, _)
Replay(before, q) ==
  IF q = <<>> THEN before ELSE Replay(run(before.file, Head(q)), Tail(q))

\* The positions of the clears among the command lines run.
Clears == {i \in 1..Len(commands) : commands[i].cmd = "clear"}

\* The command lines run after the last clear.
SinceClear ==
  LET last == CHOOSE i \in Clears : \A j \in Clears : j <= i
  IN SubSeq(commands, last + 1, Len(commands))

\* C29: right after a clear there is no state file, a load would report no active
\* session, a show no history, a save would be numbered 1 and another clear would
\* leave things as they are; and after any commands run since the last clear, the
\* state file and the lines printed are those of the same commands run from no state
\* file.
C29_ClearResets ==
  Clears # {} =>
    /\ SinceClear = <<>> =>
         /\ state_file = NoFile
         /\ cmd_load(state_file).out = <<Out("no_active_session", "")>>
         /\ cmd_show(state_file).out = <<Out("no_history", "")>>
         /\ \A t \in Times : cmd_save(state_file, "db", t).out = <<Out("saved", Entry(t, "db", 1))>>
         /\ cmd_clear(state_file).file = state_file
    /\ SinceClear # <<>> =>
         [file |-> state_file, out |-> session_out]
           = Replay([file |-> NoFile, out |-> <<>>], SinceClear)

\* Two saves, a clear and a save were run: the last save is numbered 1 and the state
\* file holds one entry.
C29_Witness ==
  /\ Len(commands) = 4
  /\ commands[1].cmd = "save" /\ commands[2].cmd = "save"
  /\ commands[3].cmd = "clear" /\ commands[4].cmd = "save"
  /\ Len(Stored["history"]) = 1
  /\ Stored["current"].session = 1
  /\ session_out = <<Out("saved", Stored["current"])>>


(***************************************************************************)
(* auto_preview.py.                                                        *)
(***************************************************************************)
TIMEOUT_SECONDS == 30

MaxPid == 2

\* The process identifiers the operating system hands out.
Pids == 1..MaxPid

Digits == <<"1", "2", "3", "4", "5", "6", "7", "8", "9">>

\* str(pid)
str(pid) == Digits[pid]

\* What read_pid returns for no file and for a text that is no number.
None == 0

\* Lines 74-81: int(pid_file.read_text().strip()), None on ValueError or no file.
read_pid(file) ==
  IF ~file.exists THEN None
  ELSE LET text == strip(file.text)
       IN IF \E n \in 1..Len(Digits) : Digits[n] = text
          THEN CHOOSE n \in 1..Len(Digits) : Digits[n] = text
          ELSE None

\* Lines 84-85.
write_pid(pid) == [exists |-> TRUE, text |-> str(pid)]

\* Lines 88-91.
clear_pid(file) == IF file.exists THEN NoFile ELSE file

\* Lines 68-71: a process listens on the port.
is_port_open == port # Nobody

\* Where main goes on once stop_server has returned (lines 170, 174-176).
after_stop == IF pframe.action = "restart" THEN "start" ELSE "idle"

\* Lines 160-176: main reads the action and calls its function.
PreviewMain ==
  /\ ppc = "idle"
  /\ \E action \in {"start", "stop", "status", "restart"} :
       /\ pframe' = [NoLocals EXCEPT !.action = action]
       /\ ppc' = (IF action = "start" THEN "start"
                  ELSE IF action = "status" THEN "status" ELSE "stop")
  /\ preview_out' = <<>>
  /\ UNCHANGED <<pid_file, alive, port, has_script, spawned>>
  /\ UNCHANGED <<scan_vars, session_vars>>

\* Lines 95-102: the port is already in use, start_server returns.
StartCheckPort ==
  /\ ppc = "start"
  /\ IF is_port_open
     THEN /\ preview_out' = preview_out \o <<Out("port_in_use", read_pid(pid_file))>>
          /\ ppc' = "idle"
     ELSE /\ ppc' = "find"
          /\ UNCHANGED preview_out
  /\ UNCHANGED <<pid_file, alive, port, has_script, pframe, spawned>>
  /\ UNCHANGED <<scan_vars, session_vars>>

\* Lines 104-111: no dev or start script, start_server returns.
StartFindCommand ==
  /\ ppc = "find"
  /\ IF ~has_script
     THEN /\ preview_out' = preview_out \o <<Out("no_script", "")>>
          /\ ppc' = "idle"
     ELSE /\ preview_out' = preview_out \o <<Out("starting", "")>>
          /\ ppc' = "popen"
  /\ UNCHANGED <<pid_file, alive, port, has_script, pframe, spawned>>
  /\ UNCHANGED <<scan_vars, session_vars>>

\* Line 112: subprocess.Popen spawns the server, or raises and the invocation ends.
StartPopen ==
  /\ ppc = "popen"
  /\ \/ \E pid \in Pids \ alive :
          /\ alive' = alive \cup {pid}
          /\ spawned' = spawned \cup {pid}
          /\ pframe' = [pframe EXCEPT !.proc = pid]
          /\ ppc' = "write_pid"
          /\ UNCHANGED preview_out
     \/ /\ preview_out' = preview_out \o <<Out("traceback", "Popen")>>
        /\ ppc' = "idle"
        /\ UNCHANGED <<alive, spawned, pframe>>
  /\ UNCHANGED <<pid_file, port, has_script>>
  /\ UNCHANGED <<scan_vars, session_vars>>

\* Line 113: write_pid(proc.pid)
StartWritePid ==
  /\ ppc = "write_pid"
  /\ pid_file' = write_pid(pframe.proc)
  /\ ppc' = "wait"
  /\ UNCHANGED <<alive, port, has_script, pframe, spawned, preview_out>>
  /\ UNCHANGED <<scan_vars, session_vars>>

\* Lines 116-129: one round of the loop that waits for the port, or its end.
StartWait ==
  /\ ppc = "wait"
  /\ IF pframe.waited < TIMEOUT_SECONDS
     THEN IF is_port_open
          THEN /\ preview_out' = preview_out \o <<Out("started", pframe.proc)>>
               /\ ppc' = "idle"
               /\ UNCHANGED pframe
          ELSE /\ pframe' = [pframe EXCEPT !.waited = @ + 1]
               /\ UNCHANGED <<ppc, preview_out>>
     ELSE /\ preview_out' = preview_out \o <<Out("timed_out", TIMEOUT_SECONDS)>>
          /\ ppc' = "terminate"
          /\ UNCHANGED pframe
  /\ UNCHANGED <<pid_file, alive, port, has_script, spawned>>
  /\ UNCHANGED <<scan_vars, session_vars>>

\* Line 130: proc.terminate()
StartTerminate ==
  /\ ppc = "terminate"
  /\ alive' = alive \ {pframe.proc}
  /\ port' = (IF port = pframe.proc THEN Nobody ELSE port)
  /\ ppc' = "clear_pid"
  /\ UNCHANGED <<pid_file, has_script, pframe, spawned, preview_out>>
  /\ UNCHANGED <<scan_vars, session_vars>>

\* Line 131: clear_pid()
StartClearPid ==
  /\ ppc = "clear_pid"
  /\ pid_file' = clear_pid(pid_file)
  /\ ppc' = "idle"
  /\ UNCHANGED <<alive, port, has_script, pframe, spawned, preview_out>>
  /\ UNCHANGED <<scan_vars, session_vars>>

\* Lines 135-138: stop_server reads the PID; without one it returns.
StopReadPid ==
  /\ ppc = "stop"
  /\ LET pid == read_pid(pid_file)
     IN IF pid = None
        THEN /\ preview_out' = preview_out \o <<Out("no_stored_pid", "")>>
             /\ ppc' = after_stop
             /\ UNCHANGED pframe
        ELSE /\ pframe' = [pframe EXCEPT !.pid = pid]
             /\ ppc' = "kill"
             /\ UNCHANGED preview_out
  /\ UNCHANGED <<pid_file, alive, port, has_script, spawned>>
  /\ UNCHANGED <<scan_vars, session_vars>>

\* A stop_server that clears the PID file only when the signal was sent (a mutant).
StopKillWithoutFinally ==
  /\ ppc = "kill"
  /\ IF pframe.pid \in alive
     THEN /\ alive' = alive \ {pframe.pid}
          /\ port' = (IF port = pframe.pid THEN Nobody ELSE port)
          /\ preview_out' = preview_out \o <<Out("stopped", pframe.pid)>>
          /\ ppc' = "stop_clear"
     ELSE /\ preview_out' = preview_out \o <<Out("not_running", pframe.pid)>>
          /\ ppc' = after_stop
          /\ UNCHANGED <<alive, port>>
  /\ UNCHANGED <<pid_file, has_script, pframe, spawned>>
  /\ UNCHANGED <<scan_vars, session_vars>>

\* Lines 139-144: os.kill(pid, SIGTERM) ends the process, or finds none.
StopKill ==
  /\ ppc = "kill"
  /\ IF pframe.pid \in alive
     THEN /\ alive' = alive \ {pframe.pid}
          /\ port' = (IF port = pframe.pid THEN Nobody ELSE port)
          /\ preview_out' = preview_out \o <<Out("stopped", pframe.pid)>>
     ELSE /\ preview_out' = preview_out \o <<Out("not_running", pframe.pid)>>
          /\ UNCHANGED <<alive, port>>
  /\ ppc' = "stop_clear"
  /\ UNCHANGED <<pid_file, has_script, pframe, spawned>>
  /\ UNCHANGED <<scan_vars, session_vars>>

\* Lines 145-146: finally: clear_pid()
StopClearPid ==
  /\ ppc = "stop_clear"
  /\ pid_file' = clear_pid(pid_file)
  /\ ppc' = after_stop
  /\ UNCHANGED <<alive, port, has_script, pframe, spawned, preview_out>>
  /\ UNCHANGED <<scan_vars, session_vars>>

\* Lines 149-157: show_status
ShowStatus ==
  /\ ppc = "status"
  /\ preview_out' = preview_out \o
       (IF is_port_open THEN <<Out("running", read_pid(pid_file))>>
        ELSE <<Out("not_running_on_port", "")>>)
  /\ ppc' = "idle"
  /\ UNCHANGED <<pid_file, alive, port, has_script, pframe, spawned>>
  /\ UNCHANGED <<scan_vars, session_vars>>

\* A server that runs begins to listen on the port.
ServerListens ==
  /\ port = Nobody
  /\ \E pid \in alive : port' = pid
  /\ UNCHANGED <<pid_file, alive, has_script, ppc, pframe, spawned, preview_out>>
  /\ UNCHANGED <<scan_vars, session_vars>>

\* A server that runs exits on its own.
ServerExits ==
  /\ \E pid \in alive :
       /\ alive' = alive \ {pid}
       /\ port' = (IF port = pid THEN Nobody ELSE port)
  /\ UNCHANGED <<pid_file, has_script, ppc, pframe, spawned, preview_out>>
  /\ UNCHANGED <<scan_vars, session_vars>>

\* No PID file or one that holds no number, no process, the port closed; package.json
\* with or without a script.
PreviewInit ==
  /\ ScanIdle
  /\ SessionFresh
  /\ pid_file \in {NoFile, [exists |-> TRUE, text |-> "abc"]}
  /\ alive = {}
  /\ port = Nobody
  /\ has_script \in BOOLEAN
  /\ ppc = "idle"
  /\ pframe = NoLocals
  /\ spawned = {}
  /\ preview_out = <<>>

\* A step of the invocation that runs.
PreviewStep ==
  \/ StartCheckPort
  \/ StartFindCommand
  \/ StartPopen
  \/ StartWritePid
  \/ StartWait
  \/ StartTerminate
  \/ StartClearPid
  \/ StopReadPid
  \/ StopKill
  \/ StopClearPid
  \/ ShowStatus

PreviewNext ==
  \/ PreviewMain
  \/ PreviewStep
  \/ ServerListens
  \/ ServerExits

\* An invocation that runs goes on to its end.
PreviewSpec == PreviewInit /\ [][PreviewNext]_vars /\ WF_vars(PreviewStep)

\* The invocation is inside stop_server and has found a stored PID.
StopFoundPid == ppc \in {"kill", "stop_clear"}

\* The invocation is inside start_server after the wait for the port ran out.
StartTimedOut == ppc \in {"terminate", "clear_pid"}

\* The PID file gets a content only at line 113, and the content is the PID of the
\* process that start_server has just spawned.
WrittenOnlyAfterSpawn ==
  (pid_file' # pid_file /\ pid_file'.exists)
    => /\ ppc = "write_pid"
       /\ pframe.proc \in spawned
       /\ read_pid(pid_file') = pframe.proc

\* stop_server that found a PID returns with no PID file.
StopReturnsWithoutPidFile ==
  (StopFoundPid /\ ~StopFoundPid') => pid_file' = NoFile

\* start_server that timed out returns with its process gone and no PID file.
TimeoutReturnsCleanedUp ==
  (StartTimedOut /\ ~StartTimedOut') => (pid_file' = NoFile /\ pframe.proc \notin alive')

\* start_server that returns before Popen leaves the PID file as it was.
EarlyReturnKeepsPidFile ==
  (ppc \in {"start", "find"} /\ ppc' = "idle") => pid_file' = pid_file

\* C30: the PID file is written only after start_server has spawned a server process;
\* every stop_server that finds a stored PID ends, and ends with the PID file removed,
\* whether the process was killed or was not running; a start whose wait for the port
\* times out ends with the spawned process terminated and the PID file removed; a start
\* that returns early (port in use, no dev/start script) leaves the PID file unchanged.
C30_PidFileLifecycle ==
  /\ [][WrittenOnlyAfterSpawn]_vars
  /\ [][StopReturnsWithoutPidFile]_vars
  /\ (StopFoundPid ~> (~StopFoundPid /\ pid_file = NoFile))
  /\ [][TimeoutReturnsCleanedUp]_vars
  /\ (StartTimedOut ~> (~StartTimedOut /\ pid_file = NoFile /\ pframe.proc \notin alive))
  /\ [][EarlyReturnKeepsPidFile]_vars

\* A restart whose stop_server found the PID of a server that had exited and removed the
\* PID file, and whose start_server then spawned a server, wrote its PID, waited
\* TIMEOUT_SECONDS in vain, terminated it and removed the PID file again.
C30_Witness ==
  /\ ppc = "idle"
  /\ pframe.action = "restart"
  /\ preview_out = <<Out("not_running", pframe.pid), Out("starting", ""),
                     Out("timed_out", TIMEOUT_SECONDS)>>
  /\ pframe.proc \in spawned \ alive
  /\ pframe.waited = TIMEOUT_SECONDS
  /\ pid_file = NoFile

====
